---- MODULE Spec2Model ----
(***************************************************************************)
(* Model of the WordPress -> Shopify product flattener                     *)
(* (src/optimized_wordpress_to_shopify_v2.py).                             *)
(*                                                                         *)
(* A Python string is a sequence of one-character strings, so that strip,  *)
(* split, lower and the substring test are computed and not assumed.  A    *)
(* pandas NaN (an absent cell) is the one-element sequence NaN.  A float   *)
(* price is passed through by the code untouched and is written as a       *)
(* one-token sequence such as <<"19.99">>.  A float attribute cell 7.0 is  *)
(* written <<"#7">> (IsNumber); IntStr and FloatStr give str(int(x)) and   *)
(* str(x).  A dict is a function from its keys (strings) to its values.    *)
(***************************************************************************)
EXTENDS Integers, Sequences, FiniteSets, TLC

VARIABLES parent_row, children_df, pc, rows, previous_variant_data, todo, matched

\* the conversion of a frame: convert_wordpress_to_shopify and its caller
VARIABLES df, variant_attrs, pending, output_rows, output_df

\* the mode of the conversion (new.py), the run, and the output of the first run
VARIABLES tag_mode, run, first_output

\* one call of parse_images and of extract_tags: the cells and the results
VARIABLES cell_images, cell_cat, parsed_images, tags

\* the scripts that read the converter's output: create_category_samples,
\* optimize_products and filter_products
VARIABLES selected_products, seen_tags, result_df, duplicate_info, filters, filtered_df

vars == <<parent_row, children_df, pc, rows, previous_variant_data, todo, matched,
          df, variant_attrs, pending, output_rows, output_df,
          tag_mode, run, first_output,
          cell_images, cell_cat, parsed_images, tags,
          selected_products, seen_tags, result_df, duplicate_info, filters, filtered_df>>

session == <<tag_mode, run, first_output>>

cells == <<cell_images, cell_cat, parsed_images, tags>>

scripts == <<selected_products, seen_tags, result_df, duplicate_info, filters, filtered_df>>

\* what one call of create_variant_rows leaves alone
frame == <<df, variant_attrs, pending, output_rows, output_df, session, cells, scripts>>

\* ------------------------------------------------------------ strings

NaN == <<"NaN">>

isna(x) == x = NaN

\* The characters of the model in code-point order (Python compares strings
\* by code point).
Ascii == <<" ", "!", ",", ".", "/", "0", "1", "2", "3", "4", "5", "6", "7", "8",
           "9", ":", ">", "A", "B", "C", "D", "E", "F", "G", "H", "I", "J",
           "K", "L", "M", "N", "O", "P", "Q", "R", "S", "T", "U", "V", "W",
           "X", "Y", "Z", "a", "b", "c", "d", "e", "f", "g", "h", "i", "j",
           "k", "l", "m", "n", "o", "p", "q", "r", "s", "t", "u", "v", "w",
           "x", "y", "z", "|">>

OrdOf == [c \in {Ascii[i] : i \in 1..Len(Ascii)} |-> CHOOSE i \in 1..Len(Ascii) : Ascii[i] = c]

Ord(c) == OrdOf[c]

UpperChars == <<"A", "B", "C", "D", "E", "F", "G", "H", "I", "J", "K", "L", "M",
                "N", "O", "P", "Q", "R", "S", "T", "U", "V", "W", "X", "Y", "Z">>
LowerChars == <<"a", "b", "c", "d", "e", "f", "g", "h", "i", "j", "k", "l", "m",
                "n", "o", "p", "q", "r", "s", "t", "u", "v", "w", "x", "y", "z">>

LowerOf ==
    [c \in {Ascii[i] : i \in 1..Len(Ascii)} |->
        IF \E i \in 1..Len(UpperChars) : UpperChars[i] = c
        THEN LowerChars[CHOOSE i \in 1..Len(UpperChars) : UpperChars[i] = c]
        ELSE c]

UpperOf ==
    [c \in {Ascii[i] : i \in 1..Len(Ascii)} |->
        IF \E i \in 1..Len(LowerChars) : LowerChars[i] = c
        THEN UpperChars[CHOOSE i \in 1..Len(LowerChars) : LowerChars[i] = c]
        ELSE c]

LowerChar(c) == LowerOf[c]

UpperChar(c) == UpperOf[c]

\* str.lower()
lower(s) == [i \in 1..Len(s) |-> LowerChar(s[i])]

\* str.capitalize(): first character upper-cased, the rest lower-cased
capitalize(s) == [i \in 1..Len(s) |-> IF i = 1 THEN UpperChar(s[i]) ELSE LowerChar(s[i])]

RECURSIVE lstrip(_)
lstrip(s) == IF s # <<>> /\ Head(s) = " " THEN lstrip(Tail(s)) ELSE s

RECURSIVE rstrip(_)
rstrip(s) == IF s # <<>> /\ s[Len(s)] = " " THEN rstrip(SubSeq(s, 1, Len(s) - 1)) ELSE s

\* str.strip()
strip(s) == rstrip(lstrip(s))

\* str.split(d) for a one-character delimiter: n delimiters give n+1 pieces
RECURSIVE split(_, _)
split(s, d) ==
    IF \A i \in 1..Len(s) : s[i] # d
    THEN <<s>>
    ELSE LET i == CHOOSE k \in 1..Len(s) : s[k] = d /\ \A j \in 1..(k - 1) : s[j] # d
         IN  <<SubSeq(s, 1, i - 1)>> \o split(SubSeq(s, i + 1, Len(s)), d)

\* sub in s
contains(s, sub) ==
    \E i \in 0..(Len(s) - Len(sub)) : SubSeq(s, i + 1, i + Len(sub)) = sub

\* s.startswith(p)
startswith(s, p) == Len(s) >= Len(p) /\ SubSeq(s, 1, Len(p)) = p

\* s.replace(pat, '')
RECURSIVE remove(_, _)
remove(s, pat) ==
    IF Len(s) < Len(pat) THEN s
    ELSE IF SubSeq(s, 1, Len(pat)) = pat
         THEN remove(SubSeq(s, Len(pat) + 1, Len(s)), pat)
         ELSE <<Head(s)>> \o remove(Tail(s), pat)

\* a < b in Python's string order
RECURSIVE StrLess(_, _)
StrLess(a, b) ==
    IF b = <<>> THEN FALSE
    ELSE IF a = <<>> THEN TRUE
    ELSE IF Head(a) = Head(b) THEN StrLess(Tail(a), Tail(b))
    ELSE Ord(Head(a)) < Ord(Head(b))

\* sorted(list(values)) of a set of strings
RECURSIVE sorted(_)
sorted(S) ==
    IF S = {} THEN <<>>
    ELSE LET m == CHOOSE x \in S : \A y \in S \ {x} : StrLess(x, y)
         IN  <<m>> \o sorted(S \ {m})

Range(s) == {s[i] : i \in 1..Len(s)}

\* [f(x) for x in s if p(x)] for p = "non-empty after strip", f = strip
RECURSIVE StripNonEmpty(_)
StripNonEmpty(s) ==
    IF s = <<>> THEN <<>>
    ELSE (IF strip(Head(s)) # <<>> THEN <<strip(Head(s))>> ELSE <<>>)
         \o StripNonEmpty(Tail(s))

StripAll(s) == [i \in 1..Len(s) |-> strip(s[i])]

\* A float cell and its two renderings.
IsNumber(x) == Len(x) = 1 /\ x[1] = "#7"
IntStr(x) == <<"7">>
FloatStr(x) == <<"7", ".", "0">>

\* str(x) of a cell
PyStr(x) == IF IsNumber(x) THEN FloatStr(x) ELSE x

\* dict helpers
Get(row, k) == IF k \in DOMAIN row THEN row[k] ELSE <<>>
Put(row, k, v) == (k :> v) @@ row

\* ------------------------------------------------------------ the code

ALT_MARK == <<"a", "l", "t", " ", ":">>

\* lines 31-34: the alt text of the pieces after the first
RECURSIVE AltText(_)
AltText(parts) ==
    IF parts = <<>> THEN <<>>
    ELSE IF startswith(strip(Head(parts)), ALT_MARK)
         THEN strip(remove(Head(parts), ALT_MARK))
         ELSE AltText(Tail(parts))

RECURSIVE ParseSegments(_)
ParseSegments(segs) ==
    IF segs = <<>> THEN <<>>
    ELSE LET img == strip(Head(segs))
             parts == split(img, "!")
         IN  (IF img = <<>> THEN <<>>
              ELSE <<[url |-> strip(parts[1]), alt |-> AltText(Tail(parts))]>>)
             \o ParseSegments(Tail(segs))

parse_images(image_str) ==
    IF isna(image_str) THEN <<>> ELSE ParseSegments(split(image_str, "|"))

\* lines 119-129, one row of the loop: the values one child's cell adds
CellValues(cell) ==
    IF isna(cell) THEN {}
    ELSE IF IsNumber(cell) THEN {IntStr(cell)}
    ELSE Range(StripNonEmpty(split(PyStr(cell), "|")))

get_option_values(children, option_name) ==
    sorted(UNION {CellValues(children[i].attrs[option_name]) : i \in 1..Len(children)})

\* lines 132-145, the loop over the parent's images
RECURSIVE ScanParentImages(_, _)
ScanParentImages(parent_images, attribute_values) ==
    IF parent_images = <<>> THEN NaN
    ELSE LET img_url == lower(Head(parent_images).url)
         IN  IF \E k \in 1..Len(attribute_values) :
                    contains(img_url, lower(attribute_values[k]))
             THEN Head(parent_images).url
             ELSE ScanParentImages(Tail(parent_images), attribute_values)

\* the parent's images compared with the values as written, case and all
get_variant_image_cased(variant_row, parent_images, attribute_values, previous_image) ==
    LET hits == {i \in 1..Len(parent_images) :
                    \E k \in 1..Len(attribute_values) :
                        contains(parent_images[i].url, attribute_values[k])}
    IN  IF ~isna(variant_row.images) /\ parse_images(variant_row.images) # <<>>
        THEN parse_images(variant_row.images)[1].url
        ELSE IF hits # {}
             THEN parent_images[CHOOSE i \in hits : \A k \in hits : i <= k].url
             ELSE previous_image

get_variant_image(variant_row, parent_images, attribute_values, previous_image) ==
    IF ~isna(variant_row.images) /\ parse_images(variant_row.images) # <<>>
    THEN parse_images(variant_row.images)[1].url
    ELSE IF ~isna(ScanParentImages(parent_images, attribute_values))
         THEN ScanParentImages(parent_images, attribute_values)
         ELSE previous_image

\* ', '.join(list)
RECURSIVE join(_)
join(list) ==
    IF list = <<>> THEN <<>>
    ELSE IF Len(list) = 1 THEN Head(list)
    ELSE Head(list) \o <<",", " ">> \o join(Tail(list))

\* '\n'.join(list)
RECURSIVE join_lines(_)
join_lines(list) ==
    IF list = <<>> THEN <<>>
    ELSE IF Len(list) = 1 THEN Head(list)
    ELSE Head(list) \o <<"\n">> \o join_lines(Tail(list))

\* sorted(list) of a list of strings: duplicates stay
RECURSIVE sorted_list(_)
sorted_list(list) ==
    IF list = <<>> THEN <<>>
    ELSE LET i == CHOOSE k \in 1..Len(list) :
                     \A j \in 1..Len(list) : ~StrLess(list[j], list[k])
         IN  <<list[i]>> \o sorted_list(SubSeq(list, 1, i - 1) \o SubSeq(list, i + 1, Len(list)))

\* lines 45-56, the tag of every path
RECURSIVE PathTags(_, _)
PathTags(paths, single_tag_mode) ==
    IF paths = <<>> THEN {}
    ELSE LET parts == StripAll(split(Head(paths), ">"))
             tag == IF single_tag_mode
                    THEN (IF Len(parts) >= 2 THEN parts[2] ELSE <<>>)
                    ELSE parts[Len(parts)]
         IN  (IF tag # <<>> THEN {tag} ELSE {}) \cup PathTags(Tail(paths), single_tag_mode)

extract_tags(category_str, single_tag_mode) ==
    IF isna(category_str) THEN <<>>
    ELSE join(sorted(PathTags(split(category_str, "|"), single_tag_mode)))

\* lines 153-164: the first path with at least three levels
RECURSIVE FirstCategory(_)
FirstCategory(paths) ==
    IF paths = <<>> THEN [category |-> <<>>, subcategory |-> <<>>]
    ELSE LET parts == StripAll(split(Head(paths), ">"))
         IN  IF Len(parts) >= 3
             THEN [category |-> parts[2], subcategory |-> parts[3]]
             ELSE FirstCategory(Tail(paths))

extract_category_info(category_str) ==
    IF isna(category_str) THEN [category |-> <<>>, subcategory |-> <<>>]
    ELSE FirstCategory(split(category_str, "|"))

\* line 83 / line 101
VARIANT_ATTRS == {<<"s", "i", "z", "e">>, <<"s", "i", "z", "e", "s">>,
                  <<"c", "o", "l", "o", "r">>}

MATERIAL == <<"m", "a", "t", "e", "r", "i", "a", "l">>

\* The meta:attribute_pa_<name> columns of the data frame, in column order.
MetaCols == <<<<"c", "o", "l", "o", "r">>, <<"s", "i", "z", "e">>,
              <<"S", "i", "z", "e", "s">>, MATERIAL>>

AttrColumns == Range(MetaCols)

\* line 94: the column an attribute is written to
FieldName(attr_name) ==
    CASE attr_name = MATERIAL -> "Material (product.metafields.custom.material)"
      [] attr_name = <<"c", "o", "l", "o", "r">> -> "Color (product.metafields.custom.color)"
      [] attr_name = <<"s", "i", "z", "e">> -> "Size (product.metafields.custom.size)"
      [] attr_name = <<"S", "i", "z", "e", "s">> -> "Sizes (product.metafields.custom.Sizes)"

\* every column is a metafield
get_metafield_attributes_all(cols) ==
    [i \in 1..Len(cols) |-> [original |-> cols[i], field_name |-> FieldName(cols[i])]]

\* lines 80-97
RECURSIVE get_metafield_attributes(_)
get_metafield_attributes(cols) ==
    IF cols = <<>> THEN <<>>
    ELSE (IF lower(Head(cols)) \notin VARIANT_ATTRS
          THEN <<[original |-> Head(cols), field_name |-> FieldName(Head(cols))]>>
          ELSE <<>>)
         \o get_metafield_attributes(Tail(cols))

\* lines 67-75, one row of the loop: the values one child's cell adds
MetaCellValues(cell) ==
    IF isna(cell) THEN {}
    ELSE IF ~IsNumber(cell) /\ contains(cell, <<"|">>)
         THEN Range(StripNonEmpty(split(cell, "|")))
         ELSE IF strip(PyStr(cell)) # <<>> THEN {strip(PyStr(cell))} ELSE {}

\* lines 60-77
get_metafield_values(children, attr_name) ==
    sorted(UNION {MetaCellValues(children[i].attrs[attr_name]) : i \in 1..Len(children)})

\* lines 99-113; children are the child records of the whole frame
get_variant_attributes(children) ==
    sorted({a \in AttrColumns :
              /\ lower(a) \in VARIANT_ATTRS
              /\ \E i \in 1..Len(children) : ~isna(children[i].attrs[a])})

\* lines 208-213: the dict attribute_values in insertion order
RECURSIVE AttributeValues(_, _)
AttributeValues(children, attrs) ==
    IF attrs = <<>> THEN <<>>
    ELSE LET values == get_option_values(children, Head(attrs))
         IN  (IF values # <<>> THEN <<[name |-> Head(attrs), values |-> values]>>
              ELSE <<>>)
             \o AttributeValues(children, Tail(attrs))

attr_names(av) == [i \in 1..Len(av) |-> av[i].name]
attr_values(av) == [i \in 1..Len(av) |-> av[i].values]

\* product with the first list varying fastest
RECURSIVE product_first_fastest(_)
product_first_fastest(lists) ==
    IF lists = <<>> THEN <<<<>>>>
    ELSE LET rest == product_first_fastest(Tail(lists))
             h == Head(lists)
         IN  [k \in 1..(Len(h) * Len(rest)) |->
                <<h[((k - 1) % Len(h)) + 1]>> \o rest[((k - 1) \div Len(h)) + 1]]

\* itertools.product(*lists): the last list varies fastest
RECURSIVE product(_)
product(lists) ==
    IF lists = <<>> THEN <<<<>>>>
    ELSE LET rest == product(Tail(lists))
             h == Head(lists)
             n == Len(rest)
         IN  [k \in 1..(Len(h) * n) |->
                <<h[((k - 1) \div n) + 1]>> \o rest[((k - 1) % n) + 1]]

\* the last value of every list instead of the first
PrimaryLast(values) == [i \in 1..Len(values) |-> values[i][Len(values[i])]]

\* line 278: tuple(v[0] for v in attr_values)
PrimaryCombination(values) == [i \in 1..Len(values) |-> values[i][1]]

\* no combination is skipped
IsPrimaryNever(variant_values, values) == FALSE

\* line 278: the combination the loop skips
IsPrimary(variant_values, values) == variant_values = PrimaryCombination(values)

\* lines 290-294: the values the matcher reads in a child's cell
ChildValues(cell) ==
    IF contains(PyStr(cell), <<"|">>) THEN StripAll(split(PyStr(cell), "|"))
    ELSE <<PyStr(cell)>>

\* lines 286-297
ChildMatches(child, names, variant_values) ==
    \A j \in 1..Len(names) :
        \/ isna(child.attrs[names[j]])
        \/ variant_values[j] \in Range(ChildValues(child.attrs[names[j]]))

\* lines 284-300: the index of the matching child, 0 for None
RECURSIVE MatchFrom(_, _, _, _)
MatchFrom(children, i, names, variant_values) ==
    IF i > Len(children) THEN 0
    ELSE IF ChildMatches(children[i], names, variant_values) THEN i
    ELSE MatchFrom(children, i + 1, names, variant_values)

MatchingChild(children, names, variant_values) ==
    MatchFrom(children, 1, names, variant_values)
OptionNameKey(idx) == <<"Option1 Name", "Option2 Name", "Option3 Name">>[idx]
OptionValueKey(idx) == <<"Option1 Value", "Option2 Value", "Option3 Value">>[idx]
OptionKeys == {OptionNameKey(i) : i \in 1..3} \cup {OptionValueKey(i) : i \in 1..3}

SIZES == <<"s", "i", "z", "e", "s">>
COLOR == <<"c", "o", "l", "o", "r">>

\* the name capitalized, sizes or not
OptionNameAsWritten(name) == capitalize(name)

\* lines 243-244 and 325-326: the displayed name of an option
OptionName(name) == capitalize(IF lower(name) = SIZES THEN <<"S", "i", "z", "e">> ELSE name)

\* str(parent_row['post_status'] == 'publish').lower()
Published(post_status) ==
    IF post_status = <<"p", "u", "b", "l", "i", "s", "h">>
    THEN <<"t", "r", "u", "e">> ELSE <<"f", "a", "l", "s", "e">>

\* lines 169-180
base_row(parent) ==
    LET category_info == extract_category_info(parent.product_cat)
    IN  ("Handle" :> parent.post_title)
        @@ ("Title" :> parent.post_title)
        @@ ("Body (HTML)" :> IF ~isna(parent.post_excerpt) THEN parent.post_excerpt ELSE <<>>)
        @@ ("Published" :> Published(parent.post_status))
        @@ ("Tags" :> extract_tags(parent.product_cat, FALSE))
        @@ ("Category (product.metafields.custom.category)" :> category_info.category)
        @@ ("Sub Category (product.metafields.custom.sub_category)" :> category_info.subcategory)

\* the parent's own value, whatever the children hold
MetafieldValueParentFirst(parent, children, attr) ==
    LET parent_value == parent.attrs[attr.original]
    IN  IF ~isna(parent_value) THEN PyStr(parent_value)
        ELSE join_lines(get_metafield_values(children, attr.original))

\* lines 184-198: the value of one metafield column
MetafieldValue(parent, children, attr) ==
    LET values == get_metafield_values(children, attr.original)
        parent_value == parent.attrs[attr.original]
    IN  IF values # <<>> THEN join_lines(values)
        ELSE IF ~isna(parent_value)
             THEN IF ~IsNumber(parent_value) /\ contains(parent_value, <<"|">>)
                  THEN join_lines(sorted_list(StripNonEmpty(split(parent_value, "|"))))
                  ELSE PyStr(parent_value)
             ELSE <<>>

\* lines 183-198: base_row after the loop over the metafield attributes
RECURSIVE AddMetafields(_, _, _, _)
AddMetafields(row, parent, children, attrs) ==
    IF attrs = <<>> THEN row
    ELSE AddMetafields(Put(row, Head(attrs).field_name,
                           MetafieldValue(parent, children, Head(attrs))),
                       parent, children, Tail(attrs))

\* lines 169-198
base_row_with_metafields(parent, children) ==
    AddMetafields(base_row(parent), parent, children, get_metafield_attributes(MetaCols))

\* an image row without the metafields
CopyNoMetafields(row, base, attrs) == row

\* lines 266-267
RECURSIVE CopyMetafields(_, _, _)
CopyMetafields(row, base, attrs) ==
    IF attrs = <<>> THEN row
    ELSE CopyMetafields(Put(row, Head(attrs).field_name, base[Head(attrs).field_name]),
                        base, Tail(attrs))

\* the two parent prices taken the other way round
SeedPreviousSwapped(parent) ==
    ("Variant Price" :> IF ~isna(parent.sale_price) THEN parent.sale_price ELSE <<>>)
    @@ ("Variant Compare At Price" :>
            IF ~isna(parent.regular_price) THEN parent.regular_price ELSE <<>>)
    @@ ("Variant Image" :> <<>>)

\* lines 202-206
SeedPrevious(parent) ==
    ("Variant Price" :> IF ~isna(parent.regular_price) THEN parent.regular_price ELSE <<>>)
    @@ ("Variant Compare At Price" :> IF ~isna(parent.sale_price) THEN parent.sale_price ELSE <<>>)
    @@ ("Variant Image" :> <<>>)

\* a child without a price of its own gets no price
VariantPriceNoCarry(child, prev) ==
    IF ~isna(child.sale_price) THEN child.sale_price
    ELSE IF ~isna(child.regular_price) THEN child.regular_price
    ELSE <<>>

\* lines 225-227 and 304-306
VariantPrice(child, prev) ==
    IF ~isna(child.sale_price) THEN child.sale_price
    ELSE IF ~isna(child.regular_price) THEN child.regular_price
    ELSE prev["Variant Price"]

\* lines 228-229 and 307-308
VariantCompare(child, prev) ==
    IF ~isna(child.regular_price) THEN child.regular_price
    ELSE prev["Variant Compare At Price"]

\* lines 235-239 and 317-321
UpdatePrevious(row) ==
    ("Variant Price" :> Get(row, "Variant Price"))
    @@ ("Variant Compare At Price" :> Get(row, "Variant Compare At Price"))
    @@ ("Variant Image" :> Get(row, "Variant Image"))

\* lines 242-249: the options of the first row, from option idx on
RECURSIVE FirstOptions(_, _, _)
FirstOptions(row, av, idx) ==
    IF idx > Len(av) THEN row
    ELSE LET r1 == IF lower(av[idx].name) = COLOR
                   THEN Put(row, "Image Alt Text", av[idx].values[1]) ELSE row
             r2 == Put(r1, OptionNameKey(idx), OptionName(av[idx].name))
             r3 == Put(r2, OptionValueKey(idx), av[idx].values[1])
         IN  FirstOptions(r3, av, idx + 1)

\* a product without children gets no price on its first row
first_row_unpriced(parent, children, attrs) ==
    LET parent_images == parse_images(parent.images)
        prev == SeedPrevious(parent)
        av == AttributeValues(children, attrs)
        base == base_row_with_metafields(parent, children)
        r1 == IF parent_images # <<>>
              THEN Put(Put(Put(base, "Image Src", parent_images[1].url),
                           "Image Alt Text", parent_images[1].alt), "Image Position", 1)
              ELSE base
    IN  IF children # <<>>
        THEN LET first_variant == children[1]
                 r2 == Put(Put(r1, "Variant Price", VariantPrice(first_variant, prev)),
                           "Variant Compare At Price", VariantCompare(first_variant, prev))
                 variant_image == get_variant_image(first_variant, parent_images, <<>>, <<>>)
                 r3 == IF variant_image # <<>> THEN Put(r2, "Variant Image", variant_image)
                       ELSE r2
             IN  FirstOptions(r3, av, 1)
        ELSE Put(Put(r1, "Variant Price", <<>>), "Variant Compare At Price", <<>>)

\* lines 215-254
first_row(parent, children, attrs) ==
    LET parent_images == parse_images(parent.images)
        prev == SeedPrevious(parent)
        av == AttributeValues(children, attrs)
        base == base_row_with_metafields(parent, children)
        r1 == IF parent_images # <<>>
              THEN Put(Put(Put(base, "Image Src", parent_images[1].url),
                           "Image Alt Text", parent_images[1].alt), "Image Position", 1)
              ELSE base
    IN  IF children # <<>>
        THEN LET first_variant == children[1]
                 r2 == Put(Put(r1, "Variant Price", VariantPrice(first_variant, prev)),
                           "Variant Compare At Price", VariantCompare(first_variant, prev))
                 variant_image == get_variant_image(first_variant, parent_images, <<>>, <<>>)
                 r3 == IF variant_image # <<>> THEN Put(r2, "Variant Image", variant_image)
                       ELSE r2
             IN  FirstOptions(r3, av, 1)
        ELSE Put(Put(r1, "Variant Price", prev["Variant Price"]),
                 "Variant Compare At Price", prev["Variant Compare At Price"])

\* an image row with the title in lower case as its Handle
img_row_lower_handle(parent, children, img, idx) ==
    LET category_info == extract_category_info(parent.product_cat)
        base == base_row_with_metafields(parent, children)
    IN  CopyMetafields(("Handle" :> lower(parent.post_title))
                       @@ ("Image Src" :> img.url)
                       @@ ("Image Alt Text" :> img.alt)
                       @@ ("Image Position" :> idx)
                       @@ ("Tags" :> base["Tags"]),
                       base, get_metafield_attributes(MetaCols))
        @@ ("Category (product.metafields.custom.category)" :> category_info.category)
        @@ ("Sub Category (product.metafields.custom.sub_category)" :> category_info.subcategory)

\* lines 258-269
img_row(parent, children, img, idx) ==
    LET category_info == extract_category_info(parent.product_cat)
        base == base_row_with_metafields(parent, children)
    IN  CopyMetafields(("Handle" :> parent.post_title)
                       @@ ("Image Src" :> img.url)
                       @@ ("Image Alt Text" :> img.alt)
                       @@ ("Image Position" :> idx)
                       @@ ("Tags" :> base["Tags"]),
                       base, get_metafield_attributes(MetaCols))
        @@ ("Category (product.metafields.custom.category)" :> category_info.category)
        @@ ("Sub Category (product.metafields.custom.sub_category)" :> category_info.subcategory)

\* lines 257-270: enumerate(parent_images[1:], 2)
image_rows(parent, children) ==
    LET parent_images == parse_images(parent.images)
    IN  [i \in 1..(Len(parent_images) - 1) |->
            img_row(parent, children, parent_images[i + 1], i + 1)]

\* lines 303-315
VariantData(row, children, m, parent_images, variant_values, prev) ==
    IF m # 0
    THEN LET r1 == Put(Put(row, "Variant Price", VariantPrice(children[m], prev)),
                       "Variant Compare At Price", VariantCompare(children[m], prev))
             variant_image == get_variant_image(children[m], parent_images, variant_values,
                                                prev["Variant Image"])
         IN  IF variant_image # <<>> THEN Put(r1, "Variant Image", variant_image) ELSE r1
    ELSE Put(Put(Put(row, "Variant Price", prev["Variant Price"]),
                 "Variant Compare At Price", prev["Variant Compare At Price"]),
             "Variant Image", prev["Variant Image"])

\* lines 324-329
RECURSIVE VariantOptions(_, _, _, _)
VariantOptions(row, names, variant_values, idx) ==
    IF idx > Len(names) THEN row
    ELSE VariantOptions(Put(Put(row, OptionNameKey(idx), OptionName(names[idx])),
                            OptionValueKey(idx), variant_values[idx]),
                        names, variant_values, idx + 1)

\* the row of one combination, copied from the first row
variant_row_from_first(parent, children, av, variant_values, prev) ==
    LET m == MatchingChild(children, attr_names(av), variant_values)
        r1 == VariantData(first_row(parent, children, attr_names(av)), children, m,
                          parse_images(parent.images), variant_values, prev)
    IN  VariantOptions(r1, attr_names(av), variant_values, 1)

\* lines 281-329: the row of one combination
variant_row(parent, children, av, variant_values, prev) ==
    LET m == MatchingChild(children, attr_names(av), variant_values)
        r1 == VariantData(base_row_with_metafields(parent, children), children, m,
                          parse_images(parent.images), variant_values, prev)
    IN  VariantOptions(r1, attr_names(av), variant_values, 1)

\* lines 273-277: the combinations the loop iterates over
Combinations(children, attrs) ==
    LET av == AttributeValues(children, attrs)
    IN  IF av # <<>> /\ children # <<>> THEN product(attr_values(av)) ELSE <<>>

\* lines 277-331: the rows the loop appends, from the combinations left
RECURSIVE LoopRows(_, _, _, _, _, _)
LoopRows(parent, children, av, combos, prev, acc) ==
    IF combos = <<>> THEN acc
    ELSE IF IsPrimary(Head(combos), attr_values(av))
         THEN LoopRows(parent, children, av, Tail(combos), prev, acc)
         ELSE LET row == variant_row(parent, children, av, Head(combos), prev)
              IN  LoopRows(parent, children, av, Tail(combos), UpdatePrevious(row),
                           Append(acc, row))

\* lines 166-333: the rows one call returns
create_variant_rows(parent, children, attrs) ==
    LET first == first_row(parent, children, attrs)
        prev == IF children # <<>> THEN UpdatePrevious(first) ELSE SeedPrevious(parent)
    IN  LoopRows(parent, children, AttributeValues(children, attrs),
                 Combinations(children, attrs), prev,
                 <<first>> \o image_rows(parent, children))

\* line 200 calls parse_images, whose line 23 calls split on the cell: a
\* float cell has no split and the call raises AttributeError
Raises(parent) == IsNumber(parent.images)

\* ------------------------------------------------------------ inputs

\* The most children a product has.
MaxChildren == 2

SIZE == <<"s", "i", "z", "e">>

SIZES_COL == <<"S", "i", "z", "e", "s">>

NoAttrs == [a \in AttrColumns |-> NaN]

Parent(prices, images) ==
    [ID |-> <<"1">>, post_parent |-> NaN,
     post_title |-> <<"t">>, post_excerpt |-> NaN,
     post_status |-> <<"p", "u", "b", "l", "i", "s", "h">>,
     product_cat |-> <<"a", " ", ">", " ", "b", " ", ">", " ", "c", "|", "a", " ", ">", " ", "d">>,
     regular_price |-> prices.regular_price, sale_price |-> prices.sale_price,
     images |-> images, attrs |-> NoAttrs]

Child(color, size, data) ==
    [ID |-> <<"9">>, post_parent |-> <<"1">>,
     attrs |-> (COLOR :> color) @@ (SIZE :> size) @@ NoAttrs,
     sale_price |-> data.sale_price, regular_price |-> data.regular_price,
     images |-> data.images]

ParentImages == {NaN, <<"u", "/", "x", "!", "a", "l", "t", " ", ":", "T">>,
                 <<"u", "/", "s", "|", " ", "u", "/", "R", "E", "D">>}
NoPrices == [regular_price |-> NaN, sale_price |-> NaN]
ParentPrices == {NoPrices, [regular_price |-> <<"10">>, sale_price |-> <<"8">>]}
NoData == [sale_price |-> NaN, regular_price |-> NaN, images |-> NaN]
ChildData == {NoData,
              [sale_price |-> NaN, regular_price |-> <<"25">>, images |-> NaN],
              [sale_price |-> <<"19.99">>, regular_price |-> <<"25">>,
               images |-> <<"c", "/", "z">>]}

\* Products that vary in their attribute cells: absent, plain, padded, piped, float.
CatalogChildren ==
    {Child(c, z, NoData) :
        c \in {NaN, <<"R", "e", "d">>, <<" ", "R", "e", "d">>,
               <<"B", "l", "u", "e", "|", "R", "e", "d">>},
        z \in {NaN, <<"M">>, <<"S">>, <<"#7">>}}

\* Products that vary in the prices and images of their children.
FallbackChildren ==
    {Child(c, z, d) :
        c \in {<<"R", "e", "d">>, <<"B", "l", "u", "e", "|", "R", "e", "d">>},
        z \in {<<"M">>, <<"S">>},
        d \in ChildData}

\* Products that vary in a metafield column and in an allow-listed column
\* written with a capital: absent, blank, padded, piped, float.
MetafieldChildren ==
    {[Child(c.color, NaN, NoData) EXCEPT !.attrs[SIZES_COL] = c.sizes, !.attrs[MATERIAL] = m] :
        c \in {[color |-> <<"R", "e", "d">>, sizes |-> NaN],
               [color |-> <<"B", "l", "u", "e", "|", "R", "e", "d">>, sizes |-> <<"L">>]},
        m \in {NaN, <<" ">>, <<" ", "W", "o", "o", "l">>,
               <<"S", "i", "l", "k", "|", "W", "o", "o", "l">>, <<"#7">>}}

MetafieldParents ==
    {[Parent(NoPrices, i) EXCEPT !.attrs[MATERIAL] = m] :
        i \in {NaN, <<"u", "/", "s", "|", " ", "u", "/", "R", "E", "D">>},
        m \in {NaN, <<" ", "F", "e", "l", "t">>, <<"b", "|", " ", "a", "|", "b">>, <<"#7">>}}

\* read_csv gives a column one type: a column with a float cell holds floats and NaN
ColumnTyped(records, a) ==
    (\E i \in 1..Len(records) : IsNumber(records[i].attrs[a]))
        => \A i \in 1..Len(records) :
              IsNumber(records[i].attrs[a]) \/ isna(records[i].attrs[a])

ChildLists(pool) ==
    {c \in UNION {[1..n -> pool] : n \in 0..MaxChildren} :
        \A a \in AttrColumns : ColumnTyped(c, a)}

CatalogInputs ==
    {[parent |-> Parent(NoPrices, i), children |-> c] :
        i \in ParentImages, c \in ChildLists(CatalogChildren)}

FallbackInputs ==
    {[parent |-> Parent(p, i), children |-> c] :
        p \in ParentPrices, i \in ParentImages, c \in ChildLists(FallbackChildren)}

MetafieldInputs ==
    {in \in {[parent |-> p, children |-> c] :
                p \in MetafieldParents, c \in ChildLists(MetafieldChildren)} :
        \A a \in AttrColumns : ColumnTyped(<<in.parent>> \o in.children, a)}

\* Products with the columns size and Sizes both filled, and with a child
\* whose images cell has an alt text and no URL.
EdgeChildren ==
    {[Child(<<"R", "e", "d">>, <<"M">>,
            [sale_price |-> NaN, regular_price |-> <<"25">>, images |-> <<"c", "/", "z">>])
         EXCEPT !.attrs[SIZES_COL] = <<"L">>],
     Child(<<"R", "e", "d">>, <<"M">>,
           [sale_price |-> NaN, regular_price |-> <<"25">>, images |-> <<"c", "/", "z">>]),
     Child(<<"B", "l", "u", "e">>, <<"S">>,
           [sale_price |-> NaN, regular_price |-> NaN,
            images |-> <<"!", "a", "l", "t", " ", ":", "T">>])}

EdgeInputs ==
    {[parent |-> Parent(NoPrices, i), children |-> c] :
        i \in {NaN, <<"u", "/", "s", "|", " ", "u", "/", "R", "E", "D">>},
        c \in ChildLists(EdgeChildren)}

Inputs == CatalogInputs \cup FallbackInputs \cup MetafieldInputs \cup EdgeInputs

\* The most products a frame of several products has.
MaxProducts == 2

TITLE_TS == <<"T", " ", "s">>

\* The products of the frames of several products: parent and children.
\* A has prices, two images and children of two colours and two sizes;
\* B has no price, two images and one child with a column of its own;
\* C has prices and nothing else; D holds a number in its images cell.
ProductA ==
    [parent |-> Parent([regular_price |-> <<"10">>, sale_price |-> <<"8">>],
                       <<"u", "/", "s", "|", " ", "u", "/", "R", "E", "D">>),
     children |-> <<Child(<<"R", "e", "d">>, <<"M">>,
                          [sale_price |-> <<"19.99">>, regular_price |-> <<"25">>,
                           images |-> <<"c", "/", "z">>]),
                    Child(<<"B", "l", "u", "e", "|", "R", "e", "d">>, <<"S">>, NoData)>>]

ProductB ==
    [parent |-> [Parent(NoPrices, <<"u", "/", "s", "|", " ", "u", "/", "R", "E", "D">>)
                    EXCEPT !.post_title = TITLE_TS],
     children |-> <<[Child(<<"B", "l", "u", "e", "|", "R", "e", "d">>, NaN, NoData)
                        EXCEPT !.attrs[SIZES_COL] = <<"L">>,
                               !.attrs[MATERIAL] = <<" ", "W", "o", "o", "l">>]>>]

ProductC ==
    [parent |-> [Parent([regular_price |-> <<"10">>, sale_price |-> <<"8">>], NaN)
                    EXCEPT !.post_title = <<"c">>],
     children |-> <<>>]

ProductD ==
    [parent |-> [Parent(NoPrices, <<"#7">>) EXCEPT !.post_title = <<"d">>],
     children |-> <<>>]

Products == {ProductA, ProductB, ProductC, ProductD}

IdOf(k) == <<<<"1">>, <<"2">>, <<"3">>, <<"4">>>>[k]

\* the records of product k of a frame: the parent, then its children
Group(prod, k) ==
    <<[prod.parent EXCEPT !.ID = IdOf(k)]>>
    \o [i \in 1..Len(prod.children) |->
            [prod.children[i] EXCEPT !.post_parent = IdOf(k)]]

RECURSIVE Groups(_, _)
Groups(products, k) ==
    IF k > Len(products) THEN <<>>
    ELSE Group(products[k], k) \o Groups(products, k + 1)

\* read_csv gives the images column one type
ImagesTyped(records) ==
    (\E i \in 1..Len(records) : IsNumber(records[i].images))
        => \A i \in 1..Len(records) : IsNumber(records[i].images) \/ isna(records[i].images)

Frames ==
    {f \in {Groups(ps, 1) : ps \in UNION {[1..n -> Products] : n \in 1..MaxProducts}} :
        ImagesTyped(f)}

\* ------------------------------------------------------------ the run

\* line 337
parent_products(frame_records) == SelectSeq(frame_records, LAMBDA r : isna(r.post_parent))

\* line 108
frame_children(frame_records) == SelectSeq(frame_records, LAMBDA r : ~isna(r.post_parent))

\* every child record of the frame, whatever its parent
children_of_any(frame_records, parent) == frame_children(frame_records)

\* line 346
children_of(frame_records, parent) ==
    SelectSeq(frame_records, LAMBDA r : r.post_parent = parent.ID)

\* no call of parse_images or extract_tags on a cell of its own
NoCells ==
    /\ cell_images = NaN
    /\ cell_cat = NaN
    /\ parsed_images = NaN
    /\ tags = NaN

\* none of the scripts has run
NoScripts ==
    /\ selected_products = <<>>
    /\ seen_tags = {}
    /\ result_df = NaN
    /\ duplicate_info = {}
    /\ filters = NaN
    /\ filtered_df = NaN

\* lines 337-347, up to the first call of create_variant_rows and the
\* assignments it opens with (lines 200-206)
StartFrame(frames) ==
    /\ df \in frames
    /\ variant_attrs = get_variant_attributes(frame_children(df))
    /\ parent_row = Head(parent_products(df))
    /\ pending = Tail(parent_products(df))
    /\ children_df = children_of(df, parent_row)
    /\ output_rows = <<>>
    /\ output_df = NaN
    /\ tag_mode = FALSE
    /\ run = 1
    /\ first_output = NaN
    /\ NoCells
    /\ NoScripts
    /\ pc = "start"
    /\ rows = <<>>
    /\ previous_variant_data = SeedPrevious(parent_row)
    /\ todo = <<>>
    /\ matched = <<>>

\* a frame of one product
Start(inputs) == StartFrame({<<in.parent>> \o in.children : in \in inputs})

Init == Start(Inputs)

\* Only plain cells: no padding, no floats; catalog and matcher read them alike.
PlainInit == Start(FallbackInputs)

\* lines 215-254: the first row
FirstRow ==
    /\ pc = "start"
    /\ ~Raises(parent_row)
    /\ LET row == first_row(parent_row, children_df, variant_attrs)
       IN  /\ rows' = <<row>>
           /\ previous_variant_data' =
                 IF children_df # <<>> THEN UpdatePrevious(row) ELSE previous_variant_data
    /\ pc' = "images"
    /\ UNCHANGED <<parent_row, children_df, todo, matched>>
    /\ UNCHANGED frame

\* lines 256-277: the remaining parent images, then the combinations to loop over
ImageRows ==
    /\ pc = "images"
    /\ rows' = rows \o image_rows(parent_row, children_df)
    /\ todo' = Combinations(children_df, variant_attrs)
    /\ pc' = "variants"
    /\ UNCHANGED <<parent_row, children_df, previous_variant_data, matched>>
    /\ UNCHANGED frame

\* lines 277-331: one iteration of the loop over the combinations
VariantRow ==
    /\ pc = "variants"
    /\ todo # <<>>
    /\ LET av == AttributeValues(children_df, variant_attrs)
           variant_values == Head(todo)
           row == variant_row(parent_row, children_df, av, variant_values,
                              previous_variant_data)
       IN  IF IsPrimary(variant_values, attr_values(av))
           THEN UNCHANGED <<rows, previous_variant_data, matched>>
           ELSE /\ rows' = Append(rows, row)
                /\ previous_variant_data' = UpdatePrevious(row)
                /\ matched' = Append(matched,
                                     [values |-> variant_values,
                                      child |-> MatchingChild(children_df, attr_names(av),
                                                              variant_values)])
    /\ todo' = Tail(todo)
    /\ UNCHANGED <<parent_row, children_df, pc>>
    /\ UNCHANGED frame

\* line 333
Return ==
    /\ pc = "variants"
    /\ todo = <<>>
    /\ pc' = "done"
    /\ UNCHANGED <<parent_row, children_df, rows, previous_variant_data, todo, matched>>
    /\ UNCHANGED frame

Next == FirstRow \/ ImageRows \/ VariantRow \/ Return

Spec == Init /\ [][Next]_vars

PlainSpec == PlainInit /\ [][Next]_vars

\* ------------------------------------------------------------ the frame

BatchInit == StartFrame(Frames)

\* line 348, then lines 345-347 for the next parent and the assignments
\* create_variant_rows opens with
Extend ==
    /\ pc = "done"
    /\ pending # <<>>
    /\ output_rows' = output_rows \o rows
    /\ parent_row' = Head(pending)
    /\ pending' = Tail(pending)
    /\ children_df' = children_of(df, Head(pending))
    /\ rows' = <<>>
    /\ previous_variant_data' = SeedPrevious(Head(pending))
    /\ todo' = <<>>
    /\ matched' = <<>>
    /\ pc' = "start"
    /\ UNCHANGED <<df, variant_attrs, output_df, session, cells, scripts>>

\* line 348 for the last parent, then lines 352-355 and main's lines 413-414
Finish ==
    /\ pc = "done"
    /\ pending = <<>>
    /\ output_rows' = output_rows \o rows
    /\ output_df' = output_rows \o rows
    /\ pc' = "returned"
    /\ UNCHANGED <<parent_row, children_df, rows, previous_variant_data, todo, matched,
                   df, variant_attrs, pending, session, cells, scripts>>

\* the exception leaves create_variant_rows and convert_wordpress_to_shopify,
\* which catch nothing, and ends in main's lines 434-436: one message, and
\* output_df is never assigned
Raise ==
    /\ pc = "start"
    /\ Raises(parent_row)
    /\ pc' = "error"
    /\ UNCHANGED <<parent_row, children_df, rows, previous_variant_data, todo, matched>>
    /\ UNCHANGED frame

BatchNext == FirstRow \/ ImageRows \/ VariantRow \/ Return \/ Extend \/ Finish \/ Raise

BatchSpec == BatchInit /\ [][BatchNext]_vars
\* ------------------------------------------------------------ new.py

\* new.py lines 38-59: the tags as a list
new_extract_tags(category_str, mode) ==
    IF isna(category_str) THEN <<>>
    ELSE sorted(PathTags(split(category_str, "|"), mode))

\* new.py lines 61-72: every column some child of the frame has a value in
get_attribute_columns(children) ==
    sorted({a \in AttrColumns : \E i \in 1..Len(children) : ~isna(children[i].attrs[a])})

\* new.py lines 74-81
new_get_option_values(children, option_name) ==
    sorted(UNION {IF isna(children[i].attrs[option_name]) THEN {}
                  ELSE Range(StripNonEmpty(split(PyStr(children[i].attrs[option_name]), "|"))) :
                  i \in 1..Len(children)})

\* new.py lines 96-100
RECURSIVE NewAttributeValues(_, _)
NewAttributeValues(children, attribute_cols) ==
    IF attribute_cols = <<>> THEN <<>>
    ELSE LET values == new_get_option_values(children, Head(attribute_cols))
         IN  (IF values # <<>> THEN <<[name |-> Head(attribute_cols), values |-> values]>>
              ELSE <<>>)
             \o NewAttributeValues(children, Tail(attribute_cols))

\* new.py lines 83-93
create_base_row(parent, mode) ==
    ("Handle" :> parent.post_title)
    @@ ("Title" :> parent.post_title)
    @@ ("Body (HTML)" :> IF ~isna(parent.post_excerpt) THEN parent.post_excerpt ELSE <<>>)
    @@ ("Published" :> Published(parent.post_status))
    @@ ("Variant Price" :> IF ~isna(parent.regular_price) THEN parent.regular_price ELSE <<>>)
    @@ ("Variant Compare At Price" :> IF ~isna(parent.sale_price) THEN parent.sale_price ELSE <<>>)
    @@ ("Tags" :> join(new_extract_tags(parent.product_cat, mode)))

\* new.py lines 119-122 and 146-148: the options of a row, from option idx on
RECURSIVE NewOptions(_, _, _, _)
NewOptions(row, av, combination, idx) ==
    IF idx > Len(av) THEN row
    ELSE NewOptions(Put(Put(row, OptionNameKey(idx), capitalize(av[idx].name)),
                        OptionValueKey(idx), combination[idx]),
                    av, combination, idx + 1)

\* new.py lines 140-150: the rows of the combinations left
RECURSIVE NewLoopRows(_, _, _)
NewLoopRows(base, av, combos) ==
    IF combos = <<>> THEN <<>>
    ELSE (IF Head(combos) = PrimaryCombination(attr_values(av)) THEN <<>>
          ELSE <<NewOptions(base, av, Head(combos), 1)>>)
         \o NewLoopRows(base, av, Tail(combos))

\* new.py lines 95-152; single_tag is NaN for None
new_create_variant_rows(parent, children, attribute_cols, single_tag, mode) ==
    LET av == NewAttributeValues(children, attribute_cols)
        parsed == parse_images(parent.images)
        images == IF parsed = <<>> THEN <<[url |-> <<>>, alt |-> <<>>]>> ELSE parsed
        base == IF ~isna(single_tag) THEN Put(create_base_row(parent, mode), "Tags", single_tag)
                ELSE create_base_row(parent, mode)
        r1 == IF images[1].url # <<>>
              THEN Put(Put(Put(base, "Image Src", images[1].url),
                           "Image Alt Text", images[1].alt), "Image Position", 1)
              ELSE base
        first == NewOptions(r1, av, PrimaryCombination(attr_values(av)), 1)
        img_rows == [i \in 1..(Len(images) - 1) |->
                        ("Handle" :> parent.post_title)
                        @@ ("Image Src" :> images[i + 1].url)
                        @@ ("Image Alt Text" :> images[i + 1].alt)
                        @@ ("Image Position" :> i + 1)
                        @@ ("Tags" :> base["Tags"])]
    IN  <<first>> \o img_rows
        \o (IF av # <<>> THEN NewLoopRows(base, av, product(attr_values(av))) ELSE <<>>)

\* new.py lines 162-165: all_tags, a set
all_tags(parents) ==
    UNION {Range(new_extract_tags(parents[i].product_cat, TRUE)) : i \in 1..Len(parents)}

\* the last parent, in record order, that has the tag
LastWithTag(parents, tag) ==
    parents[CHOOSE i \in 1..Len(parents) :
               /\ tag \in Range(new_extract_tags(parents[i].product_cat, TRUE))
               /\ \A k \in (i + 1)..Len(parents) :
                     tag \notin Range(new_extract_tags(parents[k].product_cat, TRUE))]

\* new.py lines 169-173: the first parent, in record order, that has the tag
FirstWithTag(parents, tag) ==
    parents[CHOOSE i \in 1..Len(parents) :
               /\ tag \in Range(new_extract_tags(parents[i].product_cat, TRUE))
               /\ \A k \in 1..(i - 1) :
                     tag \notin Range(new_extract_tags(parents[k].product_cat, TRUE))]

\* The orders in which a set can be iterated.  Python iterates a set of
\* strings in the order of their hashes, and the hash of a string depends on
\* a seed the interpreter draws when it starts.
Orders(S) ==
    {o \in [1..Cardinality(S) -> S] : \A i, j \in 1..Cardinality(S) : o[i] = o[j] => i = j}

\* the tags always in sorted order
OrdersSorted(S) == {sorted(S)}

\* new.py line 168: for tag in all_tags
IterationOrders(S) == Orders(S)

\* The products of the frames converted by new.py: A carries the tags b and
\* d, B the tag d, C the tag e, and D has no category.
TagProducts ==
    {ProductA,
     [ProductB EXCEPT !.parent.product_cat = <<"a", " ", ">", " ", "d">>],
     [ProductC EXCEPT !.parent.product_cat = <<"x", ">", "e", " ", "|", "y">>],
     [ProductC EXCEPT !.parent.product_cat = NaN, !.parent.post_title = <<"d">>]}

TagFrames ==
    {Groups(ps, 1) : ps \in UNION {[1..n -> TagProducts] : n \in 1..MaxProducts}}

\* new.py lines 154-159, in either mode
TagInit ==
    /\ df \in TagFrames
    /\ tag_mode \in BOOLEAN
    /\ run = 1
    /\ first_output = NaN
    /\ NoCells
    /\ NoScripts
    /\ pc = "convert"
    /\ pending = <<>>
    /\ output_rows = <<>>
    /\ output_df = NaN
    /\ variant_attrs = <<>>
    /\ parent_row = NaN
    /\ children_df = <<>>
    /\ rows = <<>>
    /\ previous_variant_data = NaN
    /\ todo = <<>>
    /\ matched = <<>>

machine == <<parent_row, children_df, rows, previous_variant_data, todo, matched,
             variant_attrs>>

\* new.py lines 161-174: tag_product_map, in the order the set is iterated
CollectTags ==
    /\ pc = "convert"
    /\ tag_mode
    /\ \E order \in IterationOrders(all_tags(parent_products(df))) :
          pending' = [i \in 1..Len(order) |->
                        [tag |-> order[i],
                         parent |-> FirstWithTag(parent_products(df), order[i])]]
    /\ pc' = "loop"
    /\ UNCHANGED <<df, output_rows, output_df, session, cells, scripts, machine>>

\* new.py lines 186-187: every parent, in record order
CollectAll ==
    /\ pc = "convert"
    /\ ~tag_mode
    /\ pending' = [i \in 1..Len(parent_products(df)) |->
                     [tag |-> NaN, parent |-> parent_products(df)[i]]]
    /\ pc' = "loop"
    /\ UNCHANGED <<df, output_rows, output_df, session, cells, scripts, machine>>

\* new.py lines 176-180 and 187-191: one product
Item ==
    /\ pc = "loop"
    /\ pending # <<>>
    /\ output_rows' =
          output_rows \o new_create_variant_rows(Head(pending).parent,
                                                 children_of(df, Head(pending).parent),
                                                 get_attribute_columns(frame_children(df)),
                                                 Head(pending).tag, tag_mode)
    /\ pending' = Tail(pending)
    /\ UNCHANGED <<pc, df, output_df, session, cells, scripts, machine>>

\* new.py lines 196-199
TagFinish ==
    /\ pc = "loop"
    /\ pending = <<>>
    /\ output_df' = output_rows
    /\ pc' = "returned"
    /\ UNCHANGED <<df, pending, output_rows, session, cells, scripts, machine>>

\* the same frame converted a second time, in the same mode
Rerun ==
    /\ pc = "returned"
    /\ run = 1
    /\ run' = 2
    /\ first_output' = output_df
    /\ output_rows' = <<>>
    /\ output_df' = NaN
    /\ pc' = "convert"
    /\ UNCHANGED <<df, pending, tag_mode, machine, cells, scripts>>

TagNext == CollectTags \/ CollectAll \/ Item \/ TagFinish \/ Rerun

TagSpec == TagInit /\ [][TagNext]_vars

\* ------------------------------------------------------------ properties

Max(a, b) == IF a >= b THEN a ELSE b

\* the parsed parent images and the catalog of the product
ParentImageList == parse_images(parent_row.images)
AV == AttributeValues(children_df, variant_attrs)

IsVariantRow(r) == "Image Position" \notin DOMAIN r

\* the rows after the first that are not image rows, in output order
VariantRows == IF rows = <<>> THEN <<>> ELSE SelectSeq(Tail(rows), IsVariantRow)

OptionValuesOf(r, n) == [i \in 1..n |-> r[OptionValueKey(i)]]

TuplesOf(vrows, n) == [j \in 1..Len(vrows) |-> OptionValuesOf(vrows[j], n)]

Tuples == TuplesOf(VariantRows, Len(AV))

PrimaryOf(av) == [i \in 1..Len(av) |-> av[i].values[1]]

AllTuples(av) ==
    {t \in [1..Len(av) -> UNION {Range(av[i].values) : i \in 1..Len(av)}] :
        \A i \in 1..Len(av) : t[i] \in Range(av[i].values)}

RECURSIVE SizeProduct(_)
SizeProduct(av) == IF av = <<>> THEN 1 ELSE Len(Head(av).values) * SizeProduct(Tail(av))

\* C1: a product with k parsed parent images and variant attributes with
\* c1..cn values (n >= 0) yields 1 + max(0, k-1) + (c1*...*cn - 1) rows,
\* whatever its children and whether or not the combinations find a child.
C1_RowCount ==
    pc = "done" =>
        Len(rows) = 1 + Max(0, Len(ParentImageList) - 1) + (SizeProduct(AV) - 1)

\* two images, two attributes of two values, a combination without a child
C1_Witness ==
    /\ pc = "done"
    /\ Len(ParentImageList) = 2
    /\ Len(AV) = 2 /\ SizeProduct(AV) = 4
    /\ \E j \in 1..Len(matched) : matched[j].child = 0
    /\ \E j \in 1..Len(matched) : matched[j].child # 0
    /\ Len(rows) = 5

\* s comes before t when the first attribute is the most significant
TupleBefore(s, t) ==
    \E i \in 1..Len(s) : (\A k \in 1..(i - 1) : s[k] = t[k]) /\ StrLess(s[i], t[i])

\* C3: the variant rows carry, in output order, the tuples of the cartesian
\* product of the sorted value lists (attributes in sorted-name order, first
\* attribute slowest, last fastest), each once, without the primary
\* combination (the first value of every attribute), which the primary row
\* carries.
C3_CartesianOrder ==
    pc = "done" =>
        LET av == AV
            vrows == VariantRows
            tuples == TuplesOf(vrows, Len(av))
            all == AllTuples(av)
        IN  /\ \A i \in 1..(Len(av) - 1) : StrLess(av[i].name, av[i + 1].name)
            /\ \A i \in 1..Len(av) : \A k \in 1..(Len(av[i].values) - 1) :
                  StrLess(av[i].values[k], av[i].values[k + 1])
            /\ Range(tuples) = all \ {PrimaryOf(av)}
            /\ Len(tuples) = Cardinality(all) - 1
            /\ \A i, j \in 1..Len(tuples) : i < j => TupleBefore(tuples[i], tuples[j])
            /\ \A j \in 1..Len(vrows) :
                  DOMAIN vrows[j] \cap OptionKeys
                     = {OptionNameKey(i) : i \in 1..Len(av)}
                       \cup {OptionValueKey(i) : i \in 1..Len(av)}
            /\ Len(av) > 0 => OptionValuesOf(rows[1], Len(av)) = PrimaryOf(av)

C3_Witness ==
    /\ pc = "done"
    /\ Len(AV) = 2 /\ Len(AV[1].values) = 2 /\ Len(AV[2].values) = 2
    /\ Len(Tuples) = 3
    /\ Tuples[1][1] = PrimaryOf(AV)[1] /\ Tuples[1][2] # PrimaryOf(AV)[2]

BLUE == <<"B", "l", "u", "e">>
RED == <<"R", "e", "d">>

C4_Catalog ==
    /\ pc = "done"
    /\ AV = <<[name |-> COLOR, values |-> <<BLUE, RED>>],
              [name |-> SIZE, values |-> <<<<"M">>, <<"S">>>>]>>

\* C4 as stated: for color=[Blue,Red] and size=[M,S] the non-primary
\* combinations are generated as (Blue,M),(Blue,S),(Red,S).
C4_StatedOrder ==
    C4_Catalog => Tuples = <<<<BLUE, <<"M">>>>, <<BLUE, <<"S">>>>, <<RED, <<"S">>>>>>

\* C4 as amended: for color=[Blue,Red] and size=[M,S] the primary combination
\* is (Blue,M) and the non-primary combinations are generated as
\* (Blue,S),(Red,M),(Red,S), the last attribute varying fastest.
C4_GeneratedOrder ==
    C4_Catalog =>
        /\ Tuples = <<<<BLUE, <<"S">>>>, <<RED, <<"M">>>>, <<RED, <<"S">>>>>>
        /\ OptionValuesOf(rows[1], 2) = <<BLUE, <<"M">>>>

C4_Witness == C4_Catalog /\ Len(VariantRows) = 3
\* the prices the records of the product hold
InputPrices ==
    ({parent_row.regular_price, parent_row.sale_price}
     \cup {children_df[i].sale_price : i \in 1..Len(children_df)}
     \cup {children_df[i].regular_price : i \in 1..Len(children_df)}) \ {NaN}

\* what a child holds for Variant Price and for Variant Compare At Price
OwnPrice(child) == IF ~isna(child.sale_price) THEN child.sale_price ELSE child.regular_price
OwnCompare(child) == child.regular_price

\* C2: in generation order, Variant Price and Variant Compare At Price of a
\* non-primary combination are the matched child's own value when it has one,
\* otherwise the value of the preceding row of the loop (the primary row for
\* the first combination), otherwise the empty string; never a value that no
\* record holds, such as zero.
C2_PriceCarry ==
    LET vrows == VariantRows
    IN  \A j \in 1..Len(matched) :
            LET m == matched[j].child
                before == IF j = 1 THEN rows[1] ELSE vrows[j - 1]
                price == IF m # 0 THEN OwnPrice(children_df[m]) ELSE NaN
                compare == IF m # 0 THEN OwnCompare(children_df[m]) ELSE NaN
            IN  /\ vrows[j]["Variant Price"]
                     = IF ~isna(price) THEN price ELSE Get(before, "Variant Price")
                /\ vrows[j]["Variant Compare At Price"]
                     = IF ~isna(compare) THEN compare
                       ELSE Get(before, "Variant Compare At Price")
                /\ vrows[j]["Variant Price"] \in InputPrices \cup {<<>>}
                /\ vrows[j]["Variant Compare At Price"] \in InputPrices \cup {<<>>}

\* a matched child without a price follows a sibling resolved to 19.99
C2_Witness ==
    /\ parent_row.regular_price = <<"10">>
    /\ \E j \in 2..Len(matched) :
          /\ matched[j].child # 0
          /\ isna(OwnPrice(children_df[matched[j].child]))
          /\ VariantRows[j - 1]["Variant Price"] = <<"19.99">>
          /\ VariantRows[j]["Variant Price"] = <<"19.99">>

\* the text of a cell as the catalog reads it
CellText(cell) == IF IsNumber(cell) THEN IntStr(cell) ELSE cell

\* a cell contains a value: the value is the whole trimmed cell or one of its
\* trimmed pipe-delimited pieces
CellContains(cell, v) ==
    \/ v = strip(CellText(cell))
    \/ \E k \in 1..Len(split(CellText(cell), "|")) : v = strip(split(CellText(cell), "|")[k])

CellEmpty(cell) == isna(cell) \/ strip(CellText(cell)) = <<>>

Qualifies(child, names, values) ==
    \A k \in 1..Len(names) :
        CellEmpty(child.attrs[names[k]]) \/ CellContains(child.attrs[names[k]], values[k])

FirstQualifying(children, names, values) ==
    IF \E i \in 1..Len(children) : Qualifies(children[i], names, values)
    THEN CHOOSE i \in 1..Len(children) :
            /\ Qualifies(children[i], names, values)
            /\ \A k \in 1..(i - 1) : ~Qualifies(children[k], names, values)
    ELSE 0

\* C5: the child matched to a combination is the first child in record order
\* whose cell, for every attribute of the combination, is missing or empty or
\* contains the target value; no such child gives no match.
C5_FirstQualifying ==
    LET names == attr_names(AV)
    IN  \A j \in 1..Len(matched) :
            matched[j].child = FirstQualifying(children_df, names, matched[j].values)

\* C6: every value the catalog collected from a child's cell is a value the
\* matcher finds in that cell.
C6_CatalogValuesMatch ==
    LET names == attr_names(AV)
    IN  \A j \in 1..Len(matched) : \A k \in 1..Len(names) : \A i \in 1..Len(children_df) :
            matched[j].values[k] \in CellValues(children_df[i].attrs[names[k]])
                => matched[j].values[k] \in Range(ChildValues(children_df[i].attrs[names[k]]))

\* the parent images whose URL contains a value, case ignored
Hits(imgs, values) ==
    {i \in 1..Len(imgs) :
        \E k \in 1..Len(values) : contains(lower(imgs[i].url), lower(values[k]))}

Least(S) == CHOOSE i \in S : \A k \in S : i <= k

\* own image, else first parent image containing a value, else the fallback
ImageChain(own, imgs, values, fallback) ==
    IF own # <<>> THEN own[1].url
    ELSE IF Hits(imgs, values) # {} THEN imgs[Least(Hits(imgs, values))].url
    ELSE fallback

\* C7: the Variant Image of a combination with a matched child is the first
\* URL of the child's own parsed images, else the first parent image whose
\* URL contains a value of the combination (case ignored), else the image of
\* the preceding row, else empty.
C7_MatchedImage ==
    LET vrows == VariantRows
        imgs == ParentImageList
    IN  \A j \in 1..Len(matched) :
            matched[j].child # 0 =>
                Get(vrows[j], "Variant Image")
                  = ImageChain(parse_images(children_df[matched[j].child].images), imgs,
                               matched[j].values,
                               Get(IF j = 1 THEN rows[1] ELSE vrows[j - 1], "Variant Image"))

\* a matched child without images gets the second parent image, found by a
\* value in another case; a later one gets the carried image
C7_Witness ==
    \E j \in 1..Len(matched) :
        /\ matched[j].child # 0
        /\ isna(children_df[matched[j].child].images)
        /\ Hits(ParentImageList, matched[j].values) = {2}
        /\ VariantRows[j]["Variant Image"] = <<"u", "/", "R", "E", "D">>

\* C8: a combination without a matching child gets a row whose price and
\* compare price are the carried ones and whose image is the first parent
\* image containing a value of the combination, else the carried image.
C8_UnmatchedFallback ==
    LET vrows == VariantRows
        imgs == ParentImageList
    IN  /\ pc = "done" => Len(vrows) = Len(matched)
        /\ \A j \in 1..Len(matched) :
              matched[j].child = 0 =>
                  LET before == IF j = 1 THEN rows[1] ELSE vrows[j - 1]
                  IN  /\ vrows[j]["Variant Price"] = Get(before, "Variant Price")
                      /\ vrows[j]["Variant Compare At Price"]
                           = Get(before, "Variant Compare At Price")
                      /\ Get(vrows[j], "Variant Image")
                           = ImageChain(<<>>, imgs, matched[j].values,
                                        Get(before, "Variant Image"))

OrEmpty(x) == IF isna(x) THEN <<>> ELSE x

\* C9: the primary row's price, compare price and image are resolved against
\* the first child: its own field, else the parent's; its own image, else the
\* first parent image containing a value of the primary combination, else
\* empty.
C9_PrimaryRow ==
    (rows # <<>> /\ children_df # <<>>) =>
        LET first == children_df[1]
        IN  /\ rows[1]["Variant Price"]
                 = IF ~isna(OwnPrice(first)) THEN OwnPrice(first)
                   ELSE OrEmpty(parent_row.regular_price)
            /\ rows[1]["Variant Compare At Price"]
                 = IF ~isna(OwnCompare(first)) THEN OwnCompare(first)
                   ELSE OrEmpty(parent_row.sale_price)
            /\ Get(rows[1], "Variant Image")
                 = ImageChain(parse_images(first.images), ParentImageList,
                              PrimaryOf(AV), <<>>)

\* C10 as stated: a product without children yields the primary row alone,
\* with the parent's prices and no option columns.
C10_PrimaryRowOnly ==
    (pc = "done" /\ children_df = <<>>) =>
        /\ Len(rows) = 1
        /\ rows[1]["Variant Price"] = OrEmpty(parent_row.regular_price)
        /\ rows[1]["Variant Compare At Price"] = OrEmpty(parent_row.sale_price)
        /\ DOMAIN rows[1] \cap OptionKeys = {}

\* C10 as amended: a product without children yields no variant row: the
\* primary row, then one image row per further parent image; the primary row
\* has the parent's regular_price as Variant Price and its sale_price as
\* Variant Compare At Price (empty when absent), and no row has option
\* columns.
C10_NoVariantRows ==
    (pc = "done" /\ children_df = <<>>) =>
        /\ Len(rows) = 1 + Max(0, Len(ParentImageList) - 1)
        /\ VariantRows = <<>>
        /\ rows[1]["Variant Price"] = OrEmpty(parent_row.regular_price)
        /\ rows[1]["Variant Compare At Price"] = OrEmpty(parent_row.sale_price)
        /\ \A i \in 1..Len(rows) : DOMAIN rows[i] \cap OptionKeys = {}

C10_Witness ==
    /\ pc = "done"
    /\ children_df = <<>>
    /\ Len(ParentImageList) = 2
    /\ Len(rows) = 2
    /\ rows[1]["Variant Price"] = <<"10">>
    /\ rows[1]["Variant Compare At Price"] = <<"8">>

\* C11 as stated: a product without children and without images yields exactly
\* one row, with empty price fields and no option columns.
C11_EmptyPrices ==
    (pc = "done" /\ children_df = <<>> /\ ParentImageList = <<>>) =>
        /\ Len(rows) = 1
        /\ rows[1]["Variant Price"] = <<>>
        /\ rows[1]["Variant Compare At Price"] = <<>>
        /\ DOMAIN rows[1] \cap OptionKeys = {}

\* C11 as amended: a product without children and without images yields
\* exactly one row; its Variant Price is the parent's regular_price and its
\* Variant Compare At Price the parent's sale_price, each empty only when the
\* parent has none; it has no option columns.
C11_ParentPrices ==
    (pc = "done" /\ children_df = <<>> /\ ParentImageList = <<>>) =>
        /\ Len(rows) = 1
        /\ rows[1]["Variant Price"] = OrEmpty(parent_row.regular_price)
        /\ rows[1]["Variant Compare At Price"] = OrEmpty(parent_row.sale_price)
        /\ DOMAIN rows[1] \cap OptionKeys = {}

C11_Witness ==
    /\ pc = "done"
    /\ children_df = <<>>
    /\ ParentImageList = <<>>
    /\ Len(rows) = 1
    /\ rows[1]["Variant Price"] = <<"10">>

\* the keys an image row must not carry
VariantKeys == {"Variant Price", "Variant Compare At Price", "Variant Image"}

\* the rows the loop over the combinations appended: the last Len(matched)
EmittedVariantRows == SubSeq(rows, Len(rows) - Len(matched) + 1, Len(rows))

\* C12: no image row (a row with Image Position >= 2) carries Variant Price,
\* Variant Compare At Price, Variant Image or an option column, and no
\* variant row carries Image Position.
C12_RowKinds ==
    /\ \A i \in 1..Len(rows) :
          ("Image Position" \in DOMAIN rows[i] /\ rows[i]["Image Position"] >= 2)
              => DOMAIN rows[i] \cap (VariantKeys \cup OptionKeys) = {}
    /\ \A j \in 1..Len(matched) : "Image Position" \notin DOMAIN EmittedVariantRows[j]

\* a product with a priced first row, an image row and a variant row
C12_Witness ==
    /\ pc = "done"
    /\ Len(ParentImageList) = 2
    /\ rows[1]["Image Position"] = 1 /\ rows[1]["Variant Price"] = <<"19.99">>
    /\ rows[2]["Image Position"] = 2
    /\ Len(matched) >= 1
    /\ "Variant Image" \in DOMAIN EmittedVariantRows[1]

\* C17: a row that carries Image Position p carries as Image Src and Image
\* Alt Text the URL and the alt text of the p-th parsed parent image: the
\* primary row image 1, the image rows images 2..k in order.
C17_ImageOfPosition ==
    LET imgs == ParentImageList
    IN  /\ \A i \in 1..Len(rows) :
              "Image Position" \in DOMAIN rows[i] =>
                  LET p == rows[i]["Image Position"]
                  IN  /\ p \in 1..Len(imgs)
                      /\ rows[i]["Image Src"] = imgs[p].url
                      /\ rows[i]["Image Alt Text"] = imgs[p].alt
        /\ (rows # <<>> /\ imgs # <<>>) => Get(rows[1], "Image Position") = 1
        /\ pc = "done" =>
              \A p \in 2..Len(imgs) : Get(rows[p], "Image Position") = p

\* C17 without the alt text of the primary row
C17_ImageSrcOfPosition ==
    LET imgs == ParentImageList
    IN  /\ \A i \in 1..Len(rows) :
              "Image Position" \in DOMAIN rows[i] =>
                  LET p == rows[i]["Image Position"]
                  IN  /\ p \in 1..Len(imgs)
                      /\ rows[i]["Image Src"] = imgs[p].url
                      /\ i > 1 => rows[i]["Image Alt Text"] = imgs[p].alt
        /\ (rows # <<>> /\ imgs # <<>>) => Get(rows[1], "Image Position") = 1
        /\ pc = "done" =>
              \A p \in 2..Len(imgs) : Get(rows[p], "Image Position") = p

MATERIAL_FIELD == "Material (product.metafields.custom.material)"

MetafieldKeys ==
    {MATERIAL_FIELD, "Category (product.metafields.custom.category)",
     "Sub Category (product.metafields.custom.sub_category)"}

\* C18: every metafield column, Category and Sub Category included, is on
\* every row of the product (primary, image and variant rows) with the same
\* value.
C18_MetafieldsOnEveryRow ==
    \A i \in 1..Len(rows) : \A k \in MetafieldKeys :
        k \in DOMAIN rows[i] /\ rows[i][k] = rows[1][k]

\* a primary, an image and a variant row that carry a two-line metafield
C18_Witness ==
    /\ pc = "done"
    /\ Len(ParentImageList) = 2
    /\ Len(matched) >= 1
    /\ Len(rows) >= 3
    /\ rows[Len(rows)][MATERIAL_FIELD] = <<"S", "i", "l", "k", "\n", "W", "o", "o", "l">>
    /\ rows[2]["Category (product.metafields.custom.category)"] = <<"b">>

\* the trimmed, non-empty, pipe-delimited pieces of a cell's text
Pieces(cell) ==
    IF isna(cell) THEN {}
    ELSE {strip(split(PyStr(cell), "|")[k]) : k \in 1..Len(split(PyStr(cell), "|"))} \ {<<>>}

\* the value set of an attribute among the children of the product
ValueSet(a) == UNION {Pieces(children_df[i].attrs[a]) : i \in 1..Len(children_df)}

AllowList == {<<"s", "i", "z", "e">>, <<"s", "i", "z", "e", "s">>, <<"c", "o", "l", "o", "r">>}

\* the attribute is an option of the row: some Option K has its displayed name
IsOptionOn(r, a) ==
    \E k \in 1..3 : OptionNameKey(k) \in DOMAIN r /\ r[OptionNameKey(k)] = OptionName(a)

IsMetafieldOn(r, a) == FieldName(a) \in DOMAIN r

\* C19: an attribute whose name is, case ignored, in the allow-list (size,
\* sizes, color) and whose value set among the product's children is not
\* empty is an option of the product's primary and variant rows; any other
\* attribute with a non-empty value set is a metafield column; no attribute
\* is both.
C19_OptionOrMetafield ==
    \A a \in AttrColumns :
        /\ (rows # <<>> /\ lower(a) \in AllowList /\ ValueSet(a) # {}) =>
              /\ IsOptionOn(rows[1], a)
              /\ \A j \in 1..Len(matched) : IsOptionOn(EmittedVariantRows[j], a)
        /\ (rows # <<>> /\ lower(a) \notin AllowList /\ ValueSet(a) # {}) =>
              \A i \in 1..Len(rows) : IsMetafieldOn(rows[i], a) /\ rows[i][FieldName(a)] # <<>>
        /\ \A i \in 1..Len(rows) : ~(IsOptionOn(rows[i], a) /\ IsMetafieldOn(rows[i], a))

\* the column written Sizes is an option shown as Size, material a metafield
C19_Witness ==
    /\ pc = "done"
    /\ ValueSet(SIZES_COL) # {} /\ ValueSet(COLOR) # {} /\ ValueSet(MATERIAL) # {}
    /\ Len(matched) >= 1
    /\ rows[1]["Option1 Name"] = <<"S", "i", "z", "e">>
    /\ rows[1]["Option2 Name"] = <<"C", "o", "l", "o", "r">>
    /\ rows[1][MATERIAL_FIELD] # <<>>

\* the parent's own cell: sorted pieces when delimited, else the raw text
ParentRaw(cell) ==
    IF isna(cell) THEN <<>>
    ELSE IF contains(PyStr(cell), <<"|">>)
         THEN join_lines(sorted_list(StripNonEmpty(split(PyStr(cell), "|"))))
         ELSE PyStr(cell)

\* C20: a metafield column holds the sorted distinct values collected from
\* the children (pipe-split, trimmed), joined with newlines; only when the
\* children yield nothing does it hold the parent's own value: its pieces
\* sorted when it is pipe-delimited, else the raw string, else nothing.
C20_MetafieldValue ==
    rows # <<>> =>
        rows[1][MATERIAL_FIELD]
          = IF ValueSet(MATERIAL) # {} THEN join_lines(sorted(ValueSet(MATERIAL)))
            ELSE ParentRaw(parent_row.attrs[MATERIAL])

\* children with blank cells yield nothing: the parent's pieces, sorted
C20_Witness ==
    /\ rows # <<>>
    /\ Len(children_df) = 2
    /\ children_df[1].attrs[MATERIAL] = <<" ">>
    /\ ValueSet(MATERIAL) = {}
    /\ rows[1][MATERIAL_FIELD] = <<"a", "\n", "b", "\n", "b">>

\* C13: every row emitted for a product (primary, image and variant rows)
\* carries the same Handle, the one its parent record determines: the
\* parent's title.
C13_OneHandle ==
    \A i \in 1..Len(rows) : rows[i]["Handle"] = parent_row.post_title

\* the second product of a frame, with a primary, an image and a variant row
C13_Witness ==
    /\ pc = "done"
    /\ output_rows # <<>>
    /\ parent_row.post_title = TITLE_TS
    /\ Len(ParentImageList) = 2
    /\ Len(matched) = 1
    /\ Len(rows) = 3
    /\ output_rows[1]["Handle"] = <<"t">>

\* the parents of the frame that can be processed
Healthy == SelectSeq(parent_products(df), LAMBDA p : ~IsNumber(p.images))

\* C14: when the processing of one product fails, the rows of the other
\* products are still delivered.
C14_FailureIsolated ==
    pc = "error" =>
        \A i \in 1..Len(Healthy) :
            /\ ~isna(output_df)
            /\ \E j \in 1..Len(output_df) : output_df[j]["Handle"] = Healthy[i].post_title

\* the records of the frame that name the parent as theirs
OwnChildren(parent) == SelectSeq(df, LAMBDA r : r.post_parent = parent.ID)

\* what the product yields in a frame of its own
RowsAlone(parent) ==
    create_variant_rows(parent, OwnChildren(parent),
                        get_variant_attributes(OwnChildren(parent)))

RECURSIVE RowsOfAll(_)
RowsOfAll(parents) ==
    IF parents = <<>> THEN <<>> ELSE RowsAlone(Head(parents)) \o RowsOfAll(Tail(parents))

\* C15: the rows emitted for a product, and their order, are those the
\* product yields in a frame of its own, whatever other products the frame
\* holds; the carried price and image start from the product's own parent;
\* the output is the products' rows in the order of the parents.
C15_Independent ==
    /\ pc = "start" => (rows = <<>> /\ previous_variant_data = SeedPrevious(parent_row))
    /\ pc = "done" => rows = RowsAlone(parent_row)
    /\ pc = "returned" => output_df = RowsOfAll(parent_products(df))

\* product B follows product A: the frame has columns B's children leave
\* empty, and A ended with a carried price and image that B does not show
C15_Witness ==
    /\ pc = "done"
    /\ output_rows # <<>>
    /\ output_rows[Len(output_rows)]["Variant Price"] = <<"19.99">>
    /\ variant_attrs # get_variant_attributes(OwnChildren(parent_row))
    /\ Len(matched) = 1
    /\ rows[Len(rows)]["Variant Price"] = <<>>
    /\ rows[Len(rows)]["Variant Image"] = <<"u", "/", "R", "E", "D">>

\* C16: converting the same frame twice in the same mode gives the same
\* sequence of rows with the same values, in the mode of all products and in
\* the mode of one product per tag.
C16_Deterministic ==
    (run = 2 /\ pc = "returned") => output_df = first_output

\* C16 for the mode of all products alone
C16_AllProductsDeterministic ==
    (run = 2 /\ pc = "returned" /\ ~tag_mode) => output_df = first_output

\* C16 for the products and rows, their order apart
C16_SameRows ==
    (run = 2 /\ pc = "returned") => Range(output_df) = Range(first_output)

\* the variant attributes of the product: the allow-listed columns its
\* children have values in, in sorted name order
VariantAttributes ==
    sorted({a \in AttrColumns : lower(a) \in AllowList /\ ValueSet(a) # {}})

\* the name an attribute is shown under
Shown(a) ==
    IF lower(a) = <<"s", "i", "z", "e", "s">> THEN <<"S", "i", "z", "e">> ELSE capitalize(a)

\* the row has one option pair per variant attribute, Option K named after
\* the K-th attribute
OptionsInOrder(r, attrs) ==
    /\ DOMAIN r \cap OptionKeys
         = {OptionNameKey(k) : k \in 1..Len(attrs)} \cup {OptionValueKey(k) : k \in 1..Len(attrs)}
    /\ \A k \in 1..Len(attrs) :
          /\ r[OptionNameKey(k)] = Shown(attrs[k])
          /\ r[OptionValueKey(k)] \in ValueSet(attrs[k]) \cup {IntStr(<<"#7">>)}

\* C21: on the primary row and on every variant row Option K is the K-th
\* variant attribute in sorted name order, named by the capitalized attribute
\* name, sizes shown as Size; the names are the same on all these rows, and
\* every variant row has exactly one option pair per variant attribute.
C21_OptionOrder ==
    rows # <<>> =>
        /\ OptionsInOrder(rows[1], VariantAttributes)
        /\ \A j \in 1..Len(matched) : OptionsInOrder(EmittedVariantRows[j], VariantAttributes)

\* Sizes, color: the column written Sizes sorts first and is shown as Size
C21_Witness ==
    /\ pc = "done"
    /\ VariantAttributes = <<SIZES_COL, COLOR>>
    /\ Len(matched) >= 1
    /\ EmittedVariantRows[1]["Option1 Name"] = <<"S", "i", "z", "e">>
    /\ EmittedVariantRows[1]["Option2 Name"] = <<"C", "o", "l", "o", "r">>
    /\ EmittedVariantRows[1]["Option2 Value"] = RED

\* the option names of a row, in option order
OptionNamesOf(r) ==
    [k \in 1..Cardinality(DOMAIN r \cap {OptionNameKey(i) : i \in 1..3}) |-> r[OptionNameKey(k)]]

\* C27: the option names of a row are pairwise distinct, also when the
\* children of the product have values in a size and in a sizes column.
C27_DistinctOptionNames ==
    \A i \in 1..Len(rows) :
        \A k, l \in 1..Len(OptionNamesOf(rows[i])) :
            OptionNamesOf(rows[i])[k] = OptionNamesOf(rows[i])[l] => k = l

\* C27 for the products that do not fill both columns
C27_DistinctUnlessBoth ==
    (ValueSet(SIZE) = {} \/ ValueSet(SIZES_COL) = {}) => C27_DistinctOptionNames

NonEmptyAt(r, k) == Get(r, k) # <<>>

\* the primary row and the variant rows, in the order of the loop
ResolvedRows == IF rows = <<>> THEN <<>> ELSE <<rows[1]>> \o EmittedVariantRows

\* once a row has a value for the field, every later variant row has one
StaysResolved(k) ==
    \A i, j \in 1..Len(ResolvedRows) :
        (i < j /\ NonEmptyAt(ResolvedRows[i], k)) => NonEmptyAt(ResolvedRows[j], k)

\* C25: once the primary row or a variant row has a non-empty Variant Price,
\* Variant Compare At Price or Variant Image, every later variant row of the
\* product has a non-empty value for that field.
C25_CarriedNeverReset ==
    /\ StaysResolved("Variant Price")
    /\ StaysResolved("Variant Compare At Price")
    /\ StaysResolved("Variant Image")

\* C25 for the two prices alone
C25_PricesNeverReset ==
    /\ StaysResolved("Variant Price")
    /\ StaysResolved("Variant Compare At Price")

\* the Handles of the rows delivered
Handles == {output_df[j]["Handle"] : j \in 1..Len(output_df)}

\* C26: rows emitted for two different parent records never carry the same
\* Handle: grouping the output by Handle gives one group per parent record.
C26_HandlePerParent ==
    pc = "returned" => Cardinality(Handles) = Len(parent_products(df))

\* C26 for the frames whose parents have pairwise different titles
C26_HandlePerTitle ==
    pc = "returned" =>
        Cardinality(Handles)
          = Cardinality({parent_products(df)[i].post_title : i \in 1..Len(parent_products(df))})

\* the second levels of the paths of a taxonomy string that have one
SecondLevels(cat) ==
    IF isna(cat) THEN {}
    ELSE {strip(split(split(cat, "|")[i], ">")[2]) :
             i \in {k \in 1..Len(split(cat, "|")) : Len(split(split(cat, "|")[k], ">")) >= 2}}
         \ {<<>>}

\* the tags found on the parents of the frame
TagsOfFrame ==
    UNION {SecondLevels(parent_products(df)[i].product_cat) :
              i \in 1..Len(parent_products(df))}

\* the first parent in record order whose taxonomy yields the tag
Representative(t) ==
    LET ps == parent_products(df)
    IN  ps[Least({i \in 1..Len(ps) : t \in SecondLevels(ps[i].product_cat)})]

\* the rows of the output that belong to a tag, in output order
RowsTagged(t) == SelectSeq(output_df, LAMBDA r : r["Tags"] = t)

ImageCells ==
    {NaN,
     <<>>,
     <<" ">>,
     <<"u">>,
     <<"u", "!", "a", "l", "t", " ", ":", "R", "|", "v">>,
     <<" ", "u", " ", "!", " ", "a", "l", "t", " ", ":", "R", " ">>,
     <<"u", "!", "x", "!", "a", "l", "t", " ", ":", "R">>,
     <<"|", "u", "|", "|", "v", "|">>,
     <<"u", "!", "a", "l", "t", " ", ":", "a", " ", "a", "l", "t", " ", ":", "b">>,
     <<"u", "!", "a", "l", "t", " ", ":", "R", "!", "a", "l", "t", " ", ":", "S">>,
     <<"!", "a", "l", "t", " ", ":", "T">>,
     <<"u", "!", "A", "l", "t", " ", ":", "R">>,
     <<"u", "|", "v", "!", "w", "!", " ", "a", "l", "t", " ", ":", " ">>}

\* cells of the tax:product_cat column
CategoryCells ==
    {NaN,
     <<>>,
     <<"a">>,
     <<"a", " ", ">", " ", "b", " ", ">", " ", "c">>,
     <<"a", " ", ">", " ", "b", " ", ">", " ", "c", "|", "a", " ", ">", " ", "d">>,
     <<"a", " ", ">", " ", "b", " ", ">">>,
     <<"b", "|", "a">>,
     <<"a", " ", ">", " ", "b", "|", "c", " ", ">", " ", "b">>,
     <<" ", ">", " ">>,
     <<"x", ">", "e", " ", "|", "y">>,
     <<"a", " ", ">", " ", "b", " ", ">", " ", "|", "c">>,
     <<"a", " ", ">", " ", " ", ">", " ">>}

CellInit ==
    /\ cell_images \in ImageCells
    /\ cell_cat \in CategoryCells
    /\ tag_mode \in BOOLEAN
    /\ parsed_images = <<>>
    /\ tags = <<>>
    /\ pc = "call"
    /\ df = <<>>
    /\ variant_attrs = <<>>
    /\ pending = <<>>
    /\ output_rows = <<>>
    /\ output_df = NaN
    /\ run = 1
    /\ first_output = NaN
    /\ parent_row = NaN
    /\ children_df = <<>>
    /\ rows = <<>>
    /\ previous_variant_data = NaN
    /\ todo = <<>>
    /\ matched = <<>>
    /\ NoScripts

\* lines 17-37
ParseImages ==
    /\ pc \in {"call", "tags"}
    /\ parsed_images' = parse_images(cell_images)
    /\ pc' = IF pc = "call" THEN "images" ELSE "both"
    /\ UNCHANGED <<cell_images, cell_cat, tags, df, pending, output_rows, output_df,
                   session, scripts, machine>>

\* lines 39-58
ExtractTags ==
    /\ pc \in {"call", "images"}
    /\ tags' = extract_tags(cell_cat, tag_mode)
    /\ pc' = IF pc = "call" THEN "tags" ELSE "both"
    /\ UNCHANGED <<cell_images, cell_cat, parsed_images, df, pending, output_rows,
                   output_df, session, scripts, machine>>

\* parse_images has returned
Parsed == pc \in {"images", "both"}

\* extract_tags has returned
Tagged == pc \in {"tags", "both"}

CellNext == ParseImages \/ ExtractTags

CellSpec == CellInit /\ [][CellNext]_vars

\* the piece after the marker, trimmed: the first piece that starts with the
\* marker once trimmed
RECURSIVE RemainderAfterMarker(_)
RemainderAfterMarker(parts) ==
    IF parts = <<>> THEN <<>>
    ELSE IF startswith(strip(Head(parts)), ALT_MARK)
         THEN strip(SubSeq(strip(Head(parts)), Len(ALT_MARK) + 1, Len(strip(Head(parts)))))
         ELSE RemainderAfterMarker(Tail(parts))

\* the surviving segments of a cell, trimmed, in order
Segments(cell) == IF isna(cell) THEN <<>> ELSE StripNonEmpty(split(cell, "|"))

\* the images as the remainder rule gives them, element i at position i
ImagesByRemainder(cell) ==
    [i \in 1..Len(Segments(cell)) |->
        [url |-> strip(split(Segments(cell)[i], "!")[1]),
         alt |-> RemainderAfterMarker(Tail(split(Segments(cell)[i], "!")))]]

\* C22: parse_images gives the empty list for an absent or empty cell and
\* otherwise, for every surviving segment in order, the trimmed first piece
\* as URL and as alt text the trimmed remainder after the marker of the first
\* later piece that starts with the marker once trimmed.
C22_AltIsRemainder ==
    Parsed => parsed_images = ImagesByRemainder(cell_images)

\* some piece of the cell holds the marker a second time
MarkerTwice(cell) ==
    /\ ~isna(cell)
    /\ \E i \in 1..Len(Segments(cell)) :
          \E k \in 1..Len(split(Segments(cell)[i], "!")) :
              LET piece == strip(split(Segments(cell)[i], "!")[k])
              IN  /\ startswith(piece, ALT_MARK)
                  /\ contains(SubSeq(piece, Len(ALT_MARK) + 1, Len(piece)), ALT_MARK)

\* parse_images follows the remainder rule on every cell in which no piece
\* holds the marker twice; the URLs and the number of images follow it always
C22_RemainderUnlessTwice ==
    Parsed =>
        /\ Len(parsed_images) = Len(ImagesByRemainder(cell_images))
        /\ \A i \in 1..Len(parsed_images) :
              parsed_images[i].url = ImagesByRemainder(cell_images)[i].url
        /\ ~MarkerTwice(cell_images) => parsed_images = ImagesByRemainder(cell_images)

\* the last non-empty level of a path, trimmed; empty if there is none
RECURSIVE LastNonEmpty(_)
LastNonEmpty(parts) ==
    IF parts = <<>> THEN <<>>
    ELSE IF strip(parts[Len(parts)]) # <<>> THEN strip(parts[Len(parts)])
    ELSE LastNonEmpty(SubSeq(parts, 1, Len(parts) - 1))

\* the sorted set of the last non-empty levels, joined
DeepestByLevel(cell) ==
    IF isna(cell) THEN <<>>
    ELSE join(sorted({LastNonEmpty(split(split(cell, "|")[i], ">")) :
                         i \in 1..Len(split(cell, "|"))} \ {<<>>}))

\* C23: in deepest-tag mode extract_tags gives the sorted set, joined with
\* ', ', of the last non-empty level of every path, also of a path whose
\* final level is empty; an absent cell gives an empty result.
C23_LastNonEmptyLevel ==
    (Tagged /\ ~tag_mode) => tags = DeepestByLevel(cell_cat)

\* the final level of some path is empty although an earlier one is not
EmptyFinalLevel(cell) ==
    /\ ~isna(cell)
    /\ \E i \in 1..Len(split(cell, "|")) :
          LET parts == split(split(cell, "|")[i], ">")
          IN  strip(parts[Len(parts)]) = <<>> /\ LastNonEmpty(parts) # <<>>

\* extract_tags follows the rule on every cell whose paths end in a level
\* that is not empty, and gives an empty result for an absent cell
C23_FinalLevelOnly ==
    (Tagged /\ ~tag_mode) =>
        /\ ~EmptyFinalLevel(cell_cat) => tags = DeepestByLevel(cell_cat)
        /\ isna(cell_cat) => tags = <<>>

\* ------------------------------------------------------------
\* The scripts that read the converter's output.  A frame read from the CSV
\* has every column in every row; an empty cell is NaN.

\* one row of the CSV
ShopRow(handle, title, tgs, option1, option2, position, price, variant_image) ==
    ("Handle" :> handle) @@ ("Title" :> title) @@ ("Tags" :> tgs)
        @@ ("Option1 Value" :> option1) @@ ("Option2 Value" :> option2)
        @@ ("Image Position" :> position) @@ ("Variant Price" :> price)
        @@ ("Variant Image" :> variant_image)

\* the frames of up to MaxRows rows of a pool
MaxRows == 3

FramesOf(pool) == UNION {[1..n -> pool] : n \in 0..MaxRows}

\* ---- src/scripts/get_category_main_product.py

\* Rows for create_category_samples: parents with two tags, one tag, no tag
\* and an empty tag, and a row that is no parent and has a tag of its own.
SampleRows ==
    {ShopRow(<<"p">>, <<"p">>, <<"a", ",", " ", "b">>, NaN, NaN, NaN, <<"5">>, NaN),
     ShopRow(<<"q">>, <<"q">>, <<"b">>, NaN, NaN, NaN, <<"5">>, NaN),
     ShopRow(<<"r">>, <<"r">>, NaN, NaN, NaN, NaN, <<"5">>, NaN),
     ShopRow(<<"p">>, NaN, <<"c">>, NaN, NaN, <<"#7">>, NaN, NaN),
     ShopRow(<<"s">>, <<"s">>, <<"b", ",", " ", "c">>, NaN, NaN, NaN, <<"5">>, NaN),
     ShopRow(<<"t">>, <<"t">>, <<" ", ",", " ", "a">>, NaN, NaN, NaN, <<"5">>, NaN)}

SampleFrames == FramesOf(SampleRows)

\* line 16: the index labels of the rows whose Title equals the Handle
ParentLabels(shop) ==
    SelectSeq([i \in 1..Len(shop) |-> i], LAMBDA i : shop[i]["Title"] = shop[i]["Handle"])

\* the first tag of the list for which the row is taken, whatever was seen
RECURSIVE first_tag_any(_, _)
first_tag_any(tag_list, seen) ==
    IF tag_list = <<>> THEN <<>>
    ELSE IF Head(tag_list) # <<>> THEN Head(tag_list)
    ELSE first_tag_any(Tail(tag_list), seen)

\* lines 31-39: the first tag that is not empty and not seen, '' if none
RECURSIVE first_new_tag(_, _)
first_new_tag(tag_list, seen) ==
    IF tag_list = <<>> THEN <<>>
    ELSE IF Head(tag_list) # <<>> /\ Head(tag_list) \notin seen THEN Head(tag_list)
    ELSE first_new_tag(Tail(tag_list), seen)

SamplesInit ==
    /\ df \in SampleFrames
    /\ pending = ParentLabels(df)
    /\ selected_products = <<>>
    /\ seen_tags = {}
    /\ output_df = NaN
    /\ pc = "rows"
    /\ result_df = NaN
    /\ duplicate_info = {}
    /\ filters = NaN
    /\ filtered_df = NaN
    /\ variant_attrs = <<>>
    /\ output_rows = <<>>
    /\ tag_mode = FALSE
    /\ run = 1
    /\ first_output = NaN
    /\ parent_row = NaN
    /\ children_df = <<>>
    /\ rows = <<>>
    /\ previous_variant_data = NaN
    /\ todo = <<>>
    /\ matched = <<>>
    /\ NoCells

\* lines 23-39: one parent row
SampleRow ==
    /\ pc = "rows"
    /\ pending # <<>>
    /\ LET product_entry == df[Head(pending)]
           tag_list == IF isna(product_entry["Tags"]) THEN <<>>
                       ELSE StripAll(split(product_entry["Tags"], ","))
           tag == first_new_tag(tag_list, seen_tags)
       IN  IF tag = <<>>
           THEN UNCHANGED <<selected_products, seen_tags>>
           ELSE /\ seen_tags' = seen_tags \cup {tag}
                /\ selected_products' =
                      Append(selected_products, [name |-> Head(pending), row |-> product_entry])
    /\ pending' = Tail(pending)
    /\ UNCHANGED <<pc, df, output_rows, output_df, result_df, duplicate_info, filters,
                   filtered_df, session, cells, machine>>

\* line 45: the orders of the list that are sorted by Tags; rows with the
\* same Tags in any order
SortedByTags(list) ==
    {[i \in 1..Len(list) |-> list[o[i]]] :
        o \in {o \in Orders(1..Len(list)) :
                 \A i, j \in 1..Len(list) :
                     i < j => ~StrLess(list[o[j]].row["Tags"], list[o[i]].row["Tags"])}}

\* lines 42-49
SamplesWrite ==
    /\ pc = "rows"
    /\ pending = <<>>
    /\ selected_products # <<>>
    /\ output_df' \in SortedByTags(selected_products)
    /\ pc' = "written"
    /\ UNCHANGED <<df, pending, output_rows, selected_products, seen_tags, result_df,
                   duplicate_info, filters, filtered_df, session, cells, machine>>

\* line 45 on a frame without columns: nothing was selected, sort_values
\* finds no column Tags and raises
SamplesRaise ==
    /\ pc = "rows"
    /\ pending = <<>>
    /\ selected_products = <<>>
    /\ pc' = "error"
    /\ UNCHANGED <<df, pending, output_rows, output_df, scripts, session, cells, machine>>

SamplesNext == SampleRow \/ SamplesWrite \/ SamplesRaise

SamplesSpec == SamplesInit /\ [][SamplesNext]_vars

\* the tags of a Tags cell: the pieces between commas, trimmed, not empty
TagsOfCell(cell) ==
    IF isna(cell) THEN {} ELSE Range(StripAll(split(cell, ","))) \ {<<>>}

\* the tags that occur on some parent row of the frame
ParentTags ==
    UNION {TagsOfCell(df[i]["Tags"]) :
              i \in {k \in 1..Len(df) : df[k]["Title"] = df[k]["Handle"]}}

\* C28: create_category_samples selects one parent product per unique tag:
\* every non-empty tag on some parent row is carried by a selected product,
\* no row is selected twice, and as many products are selected as tags are
\* recorded as seen; the file holds the selected products.
C28_OnePerSeenTag ==
    (pc \in {"written", "error"}) =>
        /\ \A t \in ParentTags :
              \E k \in 1..Len(selected_products) : t \in TagsOfCell(selected_products[k].row["Tags"])
        /\ \A k, m \in 1..Len(selected_products) :
              selected_products[k].name = selected_products[m].name => k = m
        /\ \A k \in 1..Len(selected_products) :
              /\ selected_products[k].row = df[selected_products[k].name]
              /\ selected_products[k].row["Title"] = selected_products[k].row["Handle"]
        /\ Len(selected_products) = Cardinality(seen_tags)
        /\ seen_tags \subseteq ParentTags
        /\ pc = "written" =>
              /\ Len(output_df) = Len(selected_products)
              /\ Range(output_df) = Range(selected_products)

\* two products are selected, the second for its second tag, and a parent
\* whose tags were all seen is left out
C28_Witness ==
    /\ pc = "written"
    /\ Len(selected_products) = 2
    /\ Len(ParentLabels(df)) = 3
    /\ seen_tags = {<<"a">>, <<"b">>}
    /\ selected_products[2].row["Tags"] = <<"a", ",", " ", "b">>
    /\ selected_products[2].name = 2
    /\ output_df # selected_products

\* ---- src/scripts/not needed/filter_same_variants_csv.py

\* Rows for optimize_products: variants of p with the option M, the same
\* value with a trailing blank, another value and the value in the second
\* option, a row of p with an Image Position, and a variant of q.
OptionRows ==
    {ShopRow(<<"p">>, <<"p">>, NaN, <<"M">>, NaN, NaN, <<"5">>, NaN),
     ShopRow(<<"p">>, NaN, NaN, <<"M", " ">>, NaN, NaN, <<"6">>, NaN),
     ShopRow(<<"p">>, NaN, NaN, <<"L">>, NaN, NaN, <<"5">>, NaN),
     ShopRow(<<"p">>, NaN, NaN, <<"M">>, NaN, <<"#7">>, NaN, NaN),
     ShopRow(<<"q">>, <<"q">>, NaN, <<"M">>, NaN, NaN, <<"5">>, NaN),
     ShopRow(<<"p">>, NaN, NaN, NaN, <<"M">>, NaN, <<"5">>, NaN)}

OptionFrames == FramesOf(OptionRows)

\* lines 20-21: the option columns the function looks at
OptionColumns == <<"Option1 Value", "Option2 Value", "Option3 Value", "Option4 Value">>

\* lines 14-24: the values of the option columns that hold one, trimmed
RECURSIVE OptionsFrom(_, _)
OptionsFrom(r, i) ==
    IF i > Len(OptionColumns) THEN <<>>
    ELSE (IF OptionColumns[i] \in DOMAIN r /\ ~isna(r[OptionColumns[i]])
          THEN <<strip(PyStr(r[OptionColumns[i]]))>>
          ELSE <<>>)
         \o OptionsFrom(r, i + 1)

get_option_combination(r) == OptionsFrom(r, 1)

\* df['Handle'].unique(): the handles in the order of their first row
RECURSIVE unique(_)
unique(list) ==
    IF list = <<>> THEN <<>>
    ELSE <<Head(list)>> \o unique(SelectSeq(Tail(list), LAMBDA x : x # Head(list)))

HandlesOf(shop) == unique([i \in 1..Len(shop) |-> shop[i]["Handle"]])

\* the last row of every combination instead of the first
RECURSIVE drop_duplicates_keep_last(_)
drop_duplicates_keep_last(list) ==
    IF list = <<>> THEN <<>>
    ELSE (IF \E k \in 2..Len(list) :
                 get_option_combination(list[k]) = get_option_combination(Head(list))
          THEN <<>>
          ELSE <<Head(list)>>)
         \o drop_duplicates_keep_last(Tail(list))

\* line 87: drop_duplicates(subset='option_key', keep='first')
RECURSIVE drop_duplicates(_)
drop_duplicates(list) ==
    IF list = <<>> THEN <<>>
    ELSE <<Head(list)>>
         \o drop_duplicates(SelectSeq(Tail(list),
                LAMBDA x : get_option_combination(x) # get_option_combination(Head(list))))

\* lines 62-69: the rows of a product with and without an Image Position
ImageRowsOf(shop, handle) ==
    SelectSeq(shop, LAMBDA r : r["Handle"] = handle /\ ~isna(r["Image Position"]))

VariantRowsOf(shop, handle) ==
    SelectSeq(shop, LAMBDA r : r["Handle"] = handle /\ isna(r["Image Position"]))

\* lines 61-92: the image rows of every product, then its variants
RECURSIVE OptimizedRows(_, _)
OptimizedRows(shop, handles) ==
    IF handles = <<>> THEN <<>>
    ELSE ImageRowsOf(shop, Head(handles))
         \o drop_duplicates(VariantRowsOf(shop, Head(handles)))
         \o OptimizedRows(shop, Tail(handles))

optimize_products(shop) == OptimizedRows(shop, HandlesOf(shop))

\* lines 76-84: the combinations found more than once, with the spreadsheet
\* lines of their rows
DuplicateInfo(shop) ==
    {[Handle |-> shop[i]["Handle"],
      Options |-> get_option_combination(shop[i]),
      Lines |-> {k + 1 : k \in {k \in 1..Len(shop) :
                                   /\ shop[k]["Handle"] = shop[i]["Handle"]
                                   /\ isna(shop[k]["Image Position"])
                                   /\ get_option_combination(shop[k])
                                        = get_option_combination(shop[i])}}] :
        i \in {i \in 1..Len(shop) :
                 /\ isna(shop[i]["Image Position"])
                 /\ \E k \in 1..Len(shop) :
                       /\ k # i
                       /\ shop[k]["Handle"] = shop[i]["Handle"]
                       /\ isna(shop[k]["Image Position"])
                       /\ get_option_combination(shop[k]) = get_option_combination(shop[i])}}

OptimizeInit ==
    /\ df \in OptionFrames
    /\ pc = "uploaded"
    /\ run = 1
    /\ first_output = NaN
    /\ result_df = NaN
    /\ duplicate_info = {}
    /\ selected_products = <<>>
    /\ seen_tags = {}
    /\ filters = NaN
    /\ filtered_df = NaN
    /\ tag_mode = FALSE
    /\ pending = <<>>
    /\ output_rows = <<>>
    /\ output_df = NaN
    /\ variant_attrs = <<>>
    /\ parent_row = NaN
    /\ children_df = <<>>
    /\ rows = <<>>
    /\ previous_variant_data = NaN
    /\ todo = <<>>
    /\ matched = <<>>
    /\ NoCells

\* lines 55-94, called at line 169
Optimize ==
    /\ pc = "uploaded"
    /\ df # <<>>
    /\ result_df' = optimize_products(df)
    /\ duplicate_info' = DuplicateInfo(df)
    /\ pc' = "optimized"
    /\ UNCHANGED <<df, pending, output_rows, output_df, selected_products, seen_tags,
                   filters, filtered_df, session, cells, machine>>

\* line 92 on a frame without rows: nothing to concatenate, pd.concat raises
\* and main reports the error (lines 197-199)
OptimizeRaise ==
    /\ pc = "uploaded"
    /\ df = <<>>
    /\ pc' = "error"
    /\ UNCHANGED <<df, pending, output_rows, output_df, scripts, session, cells, machine>>

\* optimize_products applied to its own result
OptimizeAgain ==
    /\ pc = "optimized"
    /\ run = 1
    /\ df' = result_df
    /\ first_output' = result_df
    /\ run' = 2
    /\ result_df' = NaN
    /\ duplicate_info' = {}
    /\ pc' = "uploaded"
    /\ UNCHANGED <<pending, output_rows, output_df, selected_products, seen_tags,
                   filters, filtered_df, tag_mode, cells, machine>>

OptimizeNext == Optimize \/ OptimizeRaise \/ OptimizeAgain

OptimizeSpec == OptimizeInit /\ [][OptimizeNext]_vars

\* the rows of the frame at the labels of a list
RowsAt(shop, labels) == [i \in 1..Len(labels) |-> shop[labels[i]]]

\* the labels of the rows of a product that have no Image Position and are
\* the first of their combination among such rows of the product
FirstOccurrences(shop, handle) ==
    SelectSeq([i \in 1..Len(shop) |-> i],
              LAMBDA i : /\ shop[i]["Handle"] = handle
                         /\ isna(shop[i]["Image Position"])
                         /\ \A k \in 1..(i - 1) :
                               ~ /\ shop[k]["Handle"] = handle
                                 /\ isna(shop[k]["Image Position"])
                                 /\ get_option_combination(shop[k])
                                      = get_option_combination(shop[i]))

\* C29: optimize_products keeps, for every Handle, all rows with an Image
\* Position and, of the rows without one, exactly the first occurrence in
\* input order of every combination of option values; the result has no two
\* rows without Image Position of one Handle with the same combination, and
\* optimize_products applied to the result changes nothing.
C29_FirstOfEachCombination ==
    pc = "optimized" =>
        /\ \A h \in Range(HandlesOf(df)) :
              /\ SelectSeq(result_df, LAMBDA r : r["Handle"] = h /\ ~isna(r["Image Position"]))
                   = SelectSeq(df, LAMBDA r : r["Handle"] = h /\ ~isna(r["Image Position"]))
              /\ SelectSeq(result_df, LAMBDA r : r["Handle"] = h /\ isna(r["Image Position"]))
                   = RowsAt(df, FirstOccurrences(df, h))
        /\ Range(HandlesOf(result_df)) = Range(HandlesOf(df))
        /\ \A i, k \in 1..Len(result_df) :
              (/\ i # k
               /\ result_df[i]["Handle"] = result_df[k]["Handle"]
               /\ isna(result_df[i]["Image Position"])
               /\ isna(result_df[k]["Image Position"]))
                  => get_option_combination(result_df[i]) # get_option_combination(result_df[k])
        /\ run = 2 => (result_df = first_output /\ duplicate_info = {})

\* a frame of three rows of one product: a row with an Image Position and
\* the combination M, and two variants with the combination M of which the
\* second is removed; the second application has run
C29_Witness ==
    /\ pc = "optimized"
    /\ run = 2
    /\ Len(first_output) = 2
    /\ ~isna(first_output[1]["Image Position"])
    /\ first_output[2]["Variant Price"] = <<"6">>
    /\ get_option_combination(first_output[1]) = get_option_combination(first_output[2])

\* ---- src/filter_shopify_ouput_csv.py

\* Rows for filter_products: two priced rows of p, one of them with a
\* Variant Image, a row of q with the price 0 and a row of q without price.
PricedRows ==
    {ShopRow(<<"p">>, <<"p">>, <<"a">>, <<"M">>, NaN, NaN, <<"5">>, NaN),
     ShopRow(<<"p">>, NaN, NaN, <<"L">>, NaN, NaN, <<"6">>, <<"v">>),
     ShopRow(<<"q">>, <<"q">>, <<"b">>, NaN, NaN, NaN, <<"0">>, NaN),
     ShopRow(<<"q">>, NaN, NaN, NaN, NaN, <<"#7">>, NaN, NaN)}

PricedFrames == FramesOf(PricedRows)

\* pd.to_numeric of a price cell that is not empty
PriceOf(cell) ==
    CASE cell = <<"0">> -> 0
      [] cell = <<"5">> -> 5
      [] cell = <<"6">> -> 6

ALL_PRODUCTS == "All Products"
WITH_IMAGES == "With Variant Images"
WITHOUT_IMAGES == "Without Variant Images"
ALL_PRICES == "All Prices"
ZERO_PRICE == "Zero Price Products"
NON_ZERO_PRICE == "Non-Zero Price Products"
PRICE_RANGE == "Price Range"

\* lines 119-125 and 134-139: what the number inputs can hold; a number input
\* that was not touched holds 0
Counts == 0..2

\* lines 96-141: the dict the sidebar returns; min_price and max_price are
\* keys only when Price Range is selected
PriceSettings ==
    {[price_filter |-> f] : f \in {ALL_PRICES, ZERO_PRICE, NON_ZERO_PRICE}}
    \cup {[price_filter |-> PRICE_RANGE, min_price |-> lo, max_price |-> hi] :
             lo \in {0, 5}, hi \in {0, 6}}

\* the settings of the other widgets with at most one of them off its default
WidgetSettings ==
    {[variant_image_filter |-> i, tags |-> <<>>, product_limit |-> 0] @@ ps :
        i \in {ALL_PRODUCTS}, ps \in PriceSettings}
    \cup {[variant_image_filter |-> i, tags |-> <<>>, product_limit |-> 0, price_filter |-> ALL_PRICES] :
             i \in {WITH_IMAGES, WITHOUT_IMAGES}}
    \cup {[variant_image_filter |-> ALL_PRODUCTS, tags |-> t, product_limit |-> 0, price_filter |-> ALL_PRICES] :
             t \in {<<"a">>, <<"b", ",", " ", "c">>}}
    \cup {[variant_image_filter |-> ALL_PRODUCTS, tags |-> <<>>, product_limit |-> 1, price_filter |-> ALL_PRICES]}

FilterSettings ==
    {[min_variants |-> lo, max_variants |-> hi] @@ w :
        lo \in Counts, hi \in Counts, w \in WidgetSettings}

\* the rows of a product
ProductRows(shop, handle) == SelectSeq(shop, LAMBDA r : r["Handle"] = handle)

\* lines 18-32
ImageFilter(shop, f, handle) ==
    LET any_image == \E i \in 1..Len(ProductRows(shop, handle)) :
                         ~isna(ProductRows(shop, handle)[i]["Variant Image"])
    IN  CASE f.variant_image_filter = WITH_IMAGES -> any_image
          [] f.variant_image_filter = WITHOUT_IMAGES -> ~any_image
          [] OTHER -> TRUE

\* lines 34-61
PriceFilter(shop, f, handle) ==
    LET price_cells == [i \in 1..Len(ProductRows(shop, handle)) |->
                     ProductRows(shop, handle)[i]["Variant Price"]]
        prices == {PriceOf(price_cells[i]) : i \in {k \in 1..Len(price_cells) : ~isna(price_cells[k])}}
    IN  CASE f.price_filter = ZERO_PRICE -> 0 \in prices \/ prices = {}
          [] f.price_filter = NON_ZERO_PRICE -> \E x \in prices : x > 0
          [] f.price_filter = PRICE_RANGE /\ (f.min_price # 0 \/ f.max_price # 0) ->
                /\ prices # {}
                /\ \E x \in prices : f.min_price <= x
                /\ \E x \in prices : x <= f.max_price
          [] OTHER -> TRUE

\* line 70: the rows of the product that have a Variant Price
variant_count(shop, handle) ==
    Len(SelectSeq(ProductRows(shop, handle), LAMBDA r : ~isna(r["Variant Price"])))

\* lines 63-73: max_variants is a key of the dict, so its default never applies
VariantFilter(shop, f, handle) ==
    (f.min_variants # 0 \/ f.max_variants # 0) =>
        /\ f.min_variants <= variant_count(shop, handle)
        /\ variant_count(shop, handle) <= f.max_variants

\* lines 75-84: some tag of the list is a substring of the Tags of the
\* product's first row
TagFilter(shop, f, handle) ==
    f.tags # <<>> =>
        LET tag_list == StripAll(split(f.tags, ","))
            first_tags == ProductRows(shop, handle)[1]["Tags"]
            product_tags == IF isna(first_tags) THEN <<>> ELSE first_tags
        IN  \E i \in 1..Len(tag_list) : contains(product_tags, tag_list[i])

\* lines 15-84: the handles that pass every filter
FilteredHandles(shop, f) ==
    {h \in Range(HandlesOf(shop)) :
        /\ ImageFilter(shop, f, h)
        /\ PriceFilter(shop, f, h)
        /\ VariantFilter(shop, f, h)
        /\ TagFilter(shop, f, h)}

\* lines 86-88: the first product_limit handles of a list of the set, whose
\* order is up to the set
LimitChoices(handles, f) ==
    IF f.product_limit = 0 THEN {handles}
    ELSE {H \in SUBSET handles :
             Cardinality(H) = IF Cardinality(handles) < f.product_limit
                              THEN Cardinality(handles) ELSE f.product_limit}

\* lines 12-90
filter_products(shop, f) ==
    {SelectSeq(shop, LAMBDA r : r["Handle"] \in H) : H \in LimitChoices(FilteredHandles(shop, f), f)}

FilterInit ==
    /\ df \in PricedFrames
    /\ filters \in FilterSettings
    /\ filtered_df = NaN
    /\ pc = "uploaded"
    /\ selected_products = <<>>
    /\ seen_tags = {}
    /\ result_df = NaN
    /\ duplicate_info = {}
    /\ tag_mode = FALSE
    /\ run = 1
    /\ first_output = NaN
    /\ pending = <<>>
    /\ output_rows = <<>>
    /\ output_df = NaN
    /\ variant_attrs = <<>>
    /\ parent_row = NaN
    /\ children_df = <<>>
    /\ rows = <<>>
    /\ previous_variant_data = NaN
    /\ todo = <<>>
    /\ matched = <<>>
    /\ NoCells

\* main's lines 226-229
FilterProducts ==
    /\ pc = "uploaded"
    /\ filtered_df' \in filter_products(df, filters)
    /\ pc' = "filtered"
    /\ UNCHANGED <<df, pending, output_rows, output_df, selected_products, seen_tags,
                   result_df, duplicate_info, filters, session, cells, machine>>

FilterNext == FilterProducts

FilterSpec == FilterInit /\ [][FilterNext]_vars

\* only the minimum number of variants is set
OnlyMinimum ==
    /\ filters.min_variants > 0
    /\ filters.max_variants = 0
    /\ filters.variant_image_filter = ALL_PRODUCTS
    /\ filters.price_filter = ALL_PRICES
    /\ filters.tags = <<>>
    /\ filters.product_limit = 0

\* the rows of the frame that have a Variant Price and the handle
PricedRowsOf(handle) ==
    {i \in 1..Len(df) : df[i]["Handle"] = handle /\ ~isna(df[i]["Variant Price"])}

\* C30: with only a minimum number of variants m > 0 set, and the maximum at
\* its default 0, filter_products keeps all rows of exactly the products
\* with at least m rows that have a Variant Price; and in general it keeps
\* or drops the rows of a Handle together.
C30_MinimumKeepsLargeProducts ==
    pc = "filtered" =>
        /\ OnlyMinimum =>
              filtered_df = SelectSeq(df, LAMBDA r :
                                Cardinality(PricedRowsOf(r["Handle"])) >= filters.min_variants)
        /\ \E H \in SUBSET Range(HandlesOf(df)) :
              filtered_df = SelectSeq(df, LAMBDA r : r["Handle"] \in H)

\* with only a minimum set no row is kept
C30_MinimumKeepsNothing ==
    (pc = "filtered" /\ OnlyMinimum) => filtered_df = <<>>

\* the rows of a Handle are kept or dropped together, whatever the filters
C30_HandlesTogether ==
    pc = "filtered" =>
        \E H \in SUBSET Range(HandlesOf(df)) :
            filtered_df = SelectSeq(df, LAMBDA r : r["Handle"] \in H)

\* with both limits set the products within the limits are kept
C30_BothLimits ==
    (/\ pc = "filtered"
     /\ filters.max_variants > 0
     /\ filters.variant_image_filter = ALL_PRODUCTS
     /\ filters.price_filter = ALL_PRICES
     /\ filters.tags = <<>>
     /\ filters.product_limit = 0)
        => filtered_df = SelectSeq(df, LAMBDA r :
                             /\ Cardinality(PricedRowsOf(r["Handle"])) >= filters.min_variants
                             /\ Cardinality(PricedRowsOf(r["Handle"])) <= filters.max_variants)

====
